---- MODULE Spec2Model ----
(***************************************************************************)
(* Book2Audible: the Chunk Store (src/core/chunk_database.py, an SQLite    *)
(* file reached through one connection per call), the Chunk Manager        *)
(* (src/core/chunk_manager.py) and the initial chapter run                 *)
(* (src/core/processor.py).                                                *)
(*                                                                         *)
(* Store calls are modelled statement by statement.  Every call opens its  *)
(* own connection with `with sqlite3.connect(db_path) as conn`: Python's   *)
(* sqlite3 module opens a transaction implicitly before the first          *)
(* INSERT/UPDATE of the block (never before a SELECT), the statement takes *)
(* SQLite's single write lock, and the block commits when it is left       *)
(* normally and rolls back when it is left by an exception.  Readers see   *)
(* committed data only.  A connection that finds the write lock taken by   *)
(* another call waits for it; a connection that finds it taken by the      *)
(* connection of its own caller can never get it and gives up with         *)
(* "database is locked" when the busy timeout ends.                        *)
(***************************************************************************)
EXTENDS Integers, Sequences, FiniteSets, TLC

\* ---------------------------------------------------------------- bounds
NumProcs == 2          \* concurrent callers of the store
MaxChunkId == 2        \* chunk ids used by create_audio_version callers
MaxVersions == 3       \* audio_versions rows before new calls stop
MaxChunkNumber == 2    \* chunk numbers passed to create_chunk
MaxRunChunks == 4      \* chunks a segmented chapter has in a run
MaxChapterVersions == 2 \* stitched versions registered for a chapter
MaxRetryAttempts == 3  \* largest retry_attempts a synthesis client is configured with
ChunkWords == 100      \* words of each chunk of the chapter (equal-sized chunks)
MaxWords == 2          \* words of a text handed to _compare_texts
MaxSentences == 3      \* sentences of a text handed to chunk_long_text
MaxLength == 10        \* largest max_length handed to chunk_long_text
MaxChars == 3          \* characters of a raw string handed to clean_text
MaxPhraseWords == 4    \* words of a phrase handed to clean_text
MaxBuffers == 3        \* buffers of a list handed to stitch_audio_chunks
MaxBookChapters == 4   \* chapters detected in a book
MaxTrackedChunks == 2  \* chunks of the chapter run with chunk tracking
MaxBufferSamples == 3  \* samples of a buffer sentence's audio
MaxAudioSamples == 6   \* samples of the audio synthesized with buffers

Procs == 1..NumProcs
ChunkIds == 1..MaxChunkId
\* the chapter followed: every statement of the store selects by chapter_id
Chapters == {1}
ChunkNumbers == 1..MaxChunkNumber
\* positions passed to insert_chunk_at_position: any integer the API accepts
Positions == 0..(MaxChunkNumber + 1)

\* SQL NULL / Python None in an integer column
NULL == -1

\* ------------------------------------------------------------ store state
VARIABLES
  db,        \* committed tables, what every reader sees
  work,      \* tables as seen inside the open write transaction
  lock,      \* connection holding the write lock, or NoConn
  proc,      \* per caller: the store call it is in and its locals
  returned   \* per chunk id: version ids returned by create_audio_version, in commit order

\* ------------------------------------- state of _process_single_chapter
VARIABLES
  files,                \* audio files in the chapter's chunk directory
  rpc,                  \* where the orchestrator is
  num_chunks,           \* len(chunks) of the segmented chapter, 0 before the first run
  chunk_num,            \* chunk_num (i + 1) of the loop in progress
  completed_chunk_nums, \* result of the resume scan
  audio_chunks,         \* slot per chunk: its audio or NoAudio
  chunk_results,        \* one entry per chunk handled by the main loop
  successful_chunks,    \* the accepted list, in append order
  failed_chunk_nums,    \* the failed list, in append order
  calls,                \* generate_audio calls (chunk numbers) and chunk delays of this run, in order
  scanned,              \* the directory content the resume scan saw
  handed,               \* last list passed to stitch_audio_chunks by the run
  restitched,           \* last list passed to stitch_audio_chunks by a restitch
  all_chunk_text,       \* chunk texts joined so far, as the chunk numbers they belong to
  coverage_percentage,  \* NoCoverage, or actual_word_count * 100 over expected_word_count
  coverage_warning,     \* the "Text coverage below 95%" warning was logged
  batch_results,        \* result of the last batch_reprocess_failed_chunks call
  restitch_result       \* how the last restitch_chapter_audio call ended

\* ------------------------------------- FalTTSClient and AudioVerifier
VARIABLES
  retry_attempts,  \* FalTTSClient.retry_attempts
  gpc,             \* where generate_audio is: "idle", "attempt", "returned"
  attempt,         \* the loop variable of generate_audio
  remote_calls,    \* fal_client.subscribe calls of the invocation, by how each ended
  sleeps,          \* time.sleep calls of the invocation
  audio_result,    \* what the invocation returned or raised
  verifier,        \* AudioVerifier: verification_enabled, WHISPER_AVAILABLE, model
  verification     \* outcome of the last verify_audio_content call

\* ---------------------------------- state of AudioVerifier._compare_texts
VARIABLES
  original,          \* argument original, a string as its characters
  transcribed,       \* argument transcribed, a string as its characters
  comparison_result  \* the ComparisonResult returned, NoComparison before the call

\* ------------------------------------ state of TextProcessor.chunk_long_text
VARIABLES
  long_text,     \* argument text, a string as its characters
  length_limit,  \* argument max_length
  final_chunks   \* the list returned, NoChunks before the call

\* ----------------------------------------- state of TextProcessor.clean_text
VARIABLES
  dirty_text,  \* argument text, a string as its characters
  cleaned      \* the string returned, NoCleaned before the call

\* -------------------------------- state of AudioProcessor.stitch_audio_chunks
VARIABLES
  normalize_audio,  \* AudioProcessor.normalize_audio
  audio_buffers,    \* argument audio_chunks
  stitched          \* what the call returned or raised, NoStitch before the call

\* ------------------------------------------------- state of process_book
VARIABLES
  book_pc,             \* where process_book is: "idle", "chapters", "returned"
  detected,            \* len(chapters), the chapters detected in the input file
  chapter_index,       \* number of the chapter the loop is at
  processing_results,  \* processing_results
  chapter_files,       \* chapter_files
  summary              \* the summary returned, NoSummary before

\* ------------------------------------------------- state of BufferManager
VARIABLES
  buffer_pc,              \* "new" before __init__, "ready" after
  start_buffer_samples,   \* self.start_buffer_samples
  end_buffer_samples,     \* self.end_buffer_samples
  buffered_audio,         \* samples of the audio synthesized with buffers
  trimmed_audio           \* samples returned, NoTrim before the call

storevars == <<db, work, lock, proc, returned>>
buffervars == <<buffer_pc, start_buffer_samples, end_buffer_samples, buffered_audio, trimmed_audio>>
bookvars == <<book_pc, detected, chapter_index, processing_results, chapter_files, summary>>
stitchvars == <<normalize_audio, audio_buffers, stitched>>
cleanvars == <<dirty_text, cleaned>>
chunkingvars == <<long_text, length_limit, final_chunks>>
comparevars == <<original, transcribed, comparison_result>>
unitvars == <<comparevars, chunkingvars, cleanvars, stitchvars, bookvars, buffervars>>
covvars == <<all_chunk_text, coverage_percentage, coverage_warning>>
gatewayvars == <<retry_attempts, gpc, attempt, remote_calls, sleeps, audio_result>>
verifiervars == <<verifier, verification>>
servicevars == <<gatewayvars, verifiervars, unitvars>>
chaptervars == <<files, rpc, num_chunks, chunk_num, completed_chunk_nums, audio_chunks, chunk_results,
                 successful_chunks, failed_chunk_nums, calls, scanned, handed, restitched,
                 covvars, batch_results, restitch_result>>
runvars == <<chaptervars, servicevars>>
vars == <<db, work, lock, proc, returned, files, rpc, num_chunks, chunk_num,
          completed_chunk_nums,
          audio_chunks, chunk_results, successful_chunks, failed_chunk_nums,
          calls, scanned, handed, restitched,
          all_chunk_text, coverage_percentage, coverage_warning, batch_results,
          restitch_result, retry_attempts, gpc, attempt, remote_calls, sleeps,
          audio_result, verifier, verification,
          original, transcribed, comparison_result,
          long_text, length_limit, final_chunks, dirty_text, cleaned,
          normalize_audio, audio_buffers, stitched,
          book_pc, detected, chapter_index, processing_results, chapter_files, summary,
          buffer_pc, start_buffer_samples, end_buffer_samples, buffered_audio,
          trimmed_audio>>

NoConn == <<0, "none">>
Conn(p, which) == <<p, which>>

EmptyTables == [chunks |-> <<>>, audio_versions |-> <<>>, chapter_audio_versions |-> <<>>]

Idle == [op |-> "idle", pc |-> "idle", id |-> 0, num |-> 0, text |-> "",
         loc |-> 0, result |-> "", snap |-> <<>>]

\* The implicit transaction stays open after a statement: its effect is not
\* committed until the with-block is left.
AfterStatementAutocommit(committed, working) == working

AfterStatement(committed, working) == committed

\* ------------------------------------------------- audio_versions helpers
VersionRows(rows, chunk_id) == {k \in DOMAIN rows : rows[k].chunk_id = chunk_id}

\* SELECT MAX(version_number) FROM audio_versions WHERE chunk_id = ?
MaxVersionNumber(rows, chunk_id) ==
  LET S == {rows[k].version_number : k \in VersionRows(rows, chunk_id)}
  IN IF S = {} THEN NULL ELSE CHOOSE m \in S : \A x \in S : x <= m

\* version_number = (max_version or 0) + 1
NextVersionNumber(max_version) ==
  (IF max_version = NULL \/ max_version = 0 THEN 0 ELSE max_version) + 1

\* UNIQUE(chunk_id, version_number)
UniqueVersion(rows, chunk_id, version_number) ==
  ~ \E k \in DOMAIN rows :
      rows[k].chunk_id = chunk_id /\ rows[k].version_number = version_number

DeactivateNone(rows, chunk_id, version_id) == rows

\* UPDATE audio_versions SET is_active = FALSE WHERE chunk_id = ? AND id != ?
DeactivateOthers(rows, chunk_id, version_id) ==
  [k \in DOMAIN rows |->
     IF rows[k].chunk_id = chunk_id /\ k # version_id
     THEN [rows[k] EXCEPT !.is_active = FALSE]
     ELSE rows[k]]

\* ------------------------------------------- create_audio_version(chunk_id)
cav_call(p, chunk_id) ==
  /\ proc[p].op = "idle"
  /\ Len(db.audio_versions) < MaxVersions
  /\ proc' = [proc EXCEPT ![p] = [Idle EXCEPT !.op = "create_audio_version",
                                             !.pc = "select_max",
                                             !.id = chunk_id]]
  /\ UNCHANGED <<db, work, lock, returned>>

\* the SELECT runs outside any transaction and reads committed data
cav_select_max(p) ==
  /\ proc[p].op = "create_audio_version" /\ proc[p].pc = "select_max"
  /\ proc' = [proc EXCEPT ![p].loc = MaxVersionNumber(db.audio_versions, proc[p].id),
                          ![p].pc = "insert"]
  /\ UNCHANGED <<db, work, lock, returned>>

\* INSERT: takes the write lock; a UNIQUE violation raises IntegrityError,
\* which leaves the with-block and rolls back
cav_insert(p) ==
  /\ proc[p].op = "create_audio_version" /\ proc[p].pc = "insert"
  /\ lock = NoConn
  /\ LET version_number == NextVersionNumber(proc[p].loc)
         row == [chunk_id |-> proc[p].id, version_number |-> version_number,
                 is_active |-> TRUE]
     IN IF UniqueVersion(db.audio_versions, proc[p].id, version_number)
        THEN /\ lock' = Conn(p, "outer")
             /\ work' = [db EXCEPT !.audio_versions = Append(@, row)]
             /\ db' = AfterStatement(db, work')
             /\ proc' = [proc EXCEPT ![p].loc = Len(db.audio_versions) + 1,
                                     ![p].pc = "deactivate"]
        ELSE /\ proc' = [proc EXCEPT ![p].result = "IntegrityError",
                                     ![p].pc = "done"]
             /\ UNCHANGED <<db, work, lock>>
  /\ UNCHANGED returned

cav_deactivate(p) ==
  /\ proc[p].op = "create_audio_version" /\ proc[p].pc = "deactivate"
  /\ lock = Conn(p, "outer")
  /\ work' = [work EXCEPT !.audio_versions =
                 DeactivateOthers(@, proc[p].id, proc[p].loc)]
  /\ db' = AfterStatement(db, work')
  /\ proc' = [proc EXCEPT ![p].pc = "commit"]
  /\ UNCHANGED <<lock, returned>>

\* leaving the with-block commits; return version_id
cav_commit(p) ==
  /\ proc[p].op = "create_audio_version" /\ proc[p].pc = "commit"
  /\ lock = Conn(p, "outer")
  /\ db' = work
  /\ work' = work
  /\ lock' = NoConn
  /\ proc' = [proc EXCEPT ![p].result = "ok", ![p].pc = "done"]
  /\ returned' = [returned EXCEPT ![proc[p].id] = Append(@, proc[p].loc)]

\* a file of the chunk directory is <<chunk number, rest of its name>>
NoFile == <<0, "none">>

\* ----------------------------------------------------------- chunks helpers
\* the row create_chunk inserts: status 'pending', no results yet
NewChunk(chapter_id, chunk_number, text) ==
  [chapter_id |-> chapter_id, chunk_number |-> chunk_number,
   original_text |-> text, status |-> "pending",
   audio_file_path |-> NoFile, verification_score |-> NULL,
   error_message |-> "None"]

UniqueChunkAlways(rows, chapter_id, chunk_number, except) == TRUE

\* UNIQUE(chapter_id, chunk_number), checked against every other row
UniqueChunk(rows, chapter_id, chunk_number, except) ==
  ~ \E k \in DOMAIN rows :
      /\ k # except
      /\ rows[k].chapter_id = chapter_id
      /\ rows[k].chunk_number = chunk_number

\* ascending sequence of a finite set of row ids
RECURSIVE SortedSeq(_)
SortedSeq(S) ==
  IF S = {} THEN <<>>
  ELSE LET m == CHOOSE x \in S : \A y \in S : x <= y
       IN <<m>> \o SortedSeq(S \ {m})

\* UPDATE chunks SET chunk_number = chunk_number + 1
\*   WHERE chapter_id = ? AND chunk_number >= ?
\* SQLite first collects the matching rows, then rewrites them one by one in
\* ascending rowid order and checks UNIQUE(chapter_id, chunk_number) after
\* each single row; a violation aborts the statement with IntegrityError.
RECURSIVE ShiftRows(_, _, _)
ShiftRows(rows, ids, i) ==
  IF i > Len(ids) THEN [ok |-> TRUE, rows |-> rows]
  ELSE LET k == ids[i]
           n == rows[k].chunk_number + 1
       IN IF UniqueChunk(rows, rows[k].chapter_id, n, k)
          THEN ShiftRows([rows EXCEPT ![k].chunk_number = n], ids, i + 1)
          ELSE [ok |-> FALSE, rows |-> rows]

ShiftChunks(rows, chapter_id, position) ==
  ShiftRows(rows,
            SortedSeq({k \in DOMAIN rows : /\ rows[k].chapter_id = chapter_id
                                           /\ rows[k].chunk_number >= position}),
            1)

\* an exception leaves the with-block: the open transaction is rolled back
OnExceptionCommit(committed, working) == working

OnException(committed, working) == committed

\* -------------------------------- register_chunks(chapter_id, chunks, ...)
ChunkNumberZeroBased(i) == i

\* for i, chunk_text in enumerate(chunks): chunk_number = i + 1
ChunkNumberOf(i) == i + 1

\* the loop of register_chunks from index i on: one create_chunk per text,
\* each committed by itself; an IntegrityError of UNIQUE(chapter_id,
\* chunk_number) leaves the loop with the rows inserted so far
RECURSIVE RegisterLoop(_, _, _, _)
RegisterLoop(rows, chapter_id, count, i) ==
  IF i >= count THEN rows
  ELSE IF UniqueChunk(rows, chapter_id, ChunkNumberOf(i), 0)
  THEN RegisterLoop(Append(rows, NewChunk(chapter_id, ChunkNumberOf(i), "text")),
                    chapter_id, count, i + 1)
  ELSE rows

\* register_chunks(chapter_id, chunks, ...) with count chunk texts
register_chunks(chapter_id, count) ==
  /\ lock = NoConn
  /\ db' = [db EXCEPT !.chunks = RegisterLoop(@, chapter_id, count, 0)]
  /\ work' = db'
  /\ UNCHANGED <<lock, proc, returned>>
  /\ UNCHANGED runvars

\* ------------------------------- create_chunk(chapter_id, chunk_number, ...)
cc_call(p, chapter_id, chunk_number) ==
  /\ proc[p].op = "idle"
  /\ proc' = [proc EXCEPT ![p] = [Idle EXCEPT !.op = "create_chunk",
                                             !.pc = "insert",
                                             !.id = chapter_id,
                                             !.num = chunk_number,
                                             !.text = "orig"]]
  /\ UNCHANGED <<db, work, lock, returned>>

cc_insert(p) ==
  /\ proc[p].op = "create_chunk" /\ proc[p].pc = "insert"
  /\ lock = NoConn
  /\ IF UniqueChunk(db.chunks, proc[p].id, proc[p].num, 0)
     THEN /\ lock' = Conn(p, "outer")
          /\ work' = [db EXCEPT !.chunks =
                        Append(@, NewChunk(proc[p].id, proc[p].num, proc[p].text))]
          /\ db' = AfterStatement(db, work')
          /\ proc' = [proc EXCEPT ![p].loc = Len(db.chunks) + 1,
                                  ![p].pc = "commit"]
     ELSE /\ proc' = [proc EXCEPT ![p].result = "IntegrityError",
                                  ![p].pc = "done"]
          /\ UNCHANGED <<db, work, lock>>
  /\ UNCHANGED returned

cc_commit(p) ==
  /\ proc[p].op = "create_chunk" /\ proc[p].pc = "commit"
  /\ lock = Conn(p, "outer")
  /\ db' = work
  /\ work' = work
  /\ lock' = NoConn
  /\ proc' = [proc EXCEPT ![p].result = "ok", ![p].pc = "done"]
  /\ UNCHANGED returned

\* ------------------ insert_chunk_at_position(chapter_id, position, new_text)
icp_call(p, chapter_id, position) ==
  /\ proc[p].op = "idle"
  /\ proc' = [proc EXCEPT ![p] = [Idle EXCEPT !.op = "insert_chunk_at_position",
                                             !.pc = "shift",
                                             !.id = chapter_id,
                                             !.num = position,
                                             !.text = "new"]]
  /\ UNCHANGED <<db, work, lock, returned>>

\* the UPDATE opens the transaction of the method's own connection; snap
\* remembers the committed chunks at that moment
icp_shift(p) ==
  /\ proc[p].op = "insert_chunk_at_position" /\ proc[p].pc = "shift"
  /\ lock = NoConn
  /\ LET r == ShiftChunks(db.chunks, proc[p].id, proc[p].num)
     IN IF r.ok
        THEN /\ lock' = Conn(p, "outer")
             /\ work' = [db EXCEPT !.chunks = r.rows]
             /\ db' = AfterStatement(db, work')
             /\ proc' = [proc EXCEPT ![p].snap = db.chunks,
                                     ![p].pc = "create_chunk"]
        ELSE /\ proc' = [proc EXCEPT ![p].snap = db.chunks,
                                     ![p].result = "IntegrityError",
                                     ![p].pc = "done"]
             /\ db' = OnException(db, db)
             /\ UNCHANGED <<work, lock>>
  /\ UNCHANGED returned

\* self.create_chunk(...) opens a second connection while the first one still
\* holds the write lock with the uncommitted shift: its INSERT waits for the
\* busy timeout and raises OperationalError("database is locked")
icp_create_chunk(p) ==
  /\ proc[p].op = "insert_chunk_at_position" /\ proc[p].pc = "create_chunk"
  /\ lock = Conn(p, "outer")
  /\ lock # Conn(p, "inner")
  /\ proc' = [proc EXCEPT ![p].result = "OperationalError",
                          ![p].pc = "rollback"]
  /\ UNCHANGED <<db, work, lock, returned>>

\* the exception leaves the outer with-block
icp_rollback(p) ==
  /\ proc[p].op = "insert_chunk_at_position" /\ proc[p].pc = "rollback"
  /\ lock = Conn(p, "outer")
  /\ db' = OnException(db, work)
  /\ work' = db'
  /\ lock' = NoConn
  /\ proc' = [proc EXCEPT ![p].pc = "done"]
  /\ UNCHANGED returned

\* -------------------------------- _process_single_chapter: the chapter run
\* retry an empty slot only while len(failed_chunk_nums) <= 3
\* chunk.verification_score < 0.85, in hundredths
LowQualityThreshold == 85

RegenFailureLimit == 3

ChunkWav(k) == <<k, ".wav">>                     \* {base}_chunk_{k:03d}.wav
RegeneratedWav(k) == <<k, "_REGENERATED.wav">>   \* {base}_chunk_{k:03d}_REGENERATED.wav

\* chunks_dir.glob(f"{base_name}_chunk_*.wav")
GlobChunkWav(dir) == {f \in dir : f[2] \in {".wav", "_REGENERATED.wav"}}

\* re.search(r'chunk_(\d+)\.wav', wav_file.name): the digits must be followed
\* directly by ".wav"; 0 stands for "no match"
MatchChunkNumber(f) == IF f[2] = ".wav" THEN f[1] ELSE 0

ScanNothing(dir) == {}

\* the resume scan: chunk numbers of the existing chunk audio files
ScanCompleted(dir) ==
  {MatchChunkNumber(f) : f \in {g \in GlobChunkWav(dir) : MatchChunkNumber(g) # 0}}

NoAudio == [chunk |-> 0, src |-> "none"]
\* the audio bytes of chunk k: read from its file, returned by the main
\* pass, or returned by the regeneration
Audio(k, src) == [chunk |-> k, src |-> src]

\* list.remove(x): drops the first occurrence
RECURSIVE RemoveFirst(_, _)
RemoveFirst(seq, x) ==
  IF seq = <<>> THEN <<>>
  ELSE IF Head(seq) = x THEN Tail(seq)
  ELSE <<Head(seq)>> \o RemoveFirst(Tail(seq), x)

\* list.pop()
Pop(seq) == SubSeq(seq, 1, Len(seq) - 1)

RegeneratedKeepsAudio(successful, failed, k, overall_status) ==
  IF overall_status = "PASSED"
  THEN [successful |-> Append(successful, Audio(k, "regenerated")),
        failed |-> RemoveFirst(failed, k)]
  ELSE [successful |-> Append(successful, Audio(k, "regenerated")),
        failed |-> Append(RemoveFirst(failed, k), k)]

RegeneratedUnverified(successful, failed, k, overall_status) ==
  [successful |-> Append(successful, Audio(k, "regenerated")),
   failed |-> RemoveFirst(failed, k)]

\* the regenerated audio is appended and the chunk number taken off the
\* failed list; when verify_audio_file does not answer PASSED both are undone
Regenerated(successful, failed, k, overall_status) ==
  IF overall_status = "PASSED"
  THEN [successful |-> Append(successful, Audio(k, "regenerated")),
        failed |-> RemoveFirst(failed, k)]
  ELSE [successful |-> Pop(Append(successful, Audio(k, "regenerated"))),
        failed |-> Append(RemoveFirst(failed, k), k)]

\* coverage_percentage before it is computed
NoCoverage == <<NULL, NULL>>

\* len(text.split()) of all_chunk_text, the chunks being equal-sized
WordCount(text) == Len(text) * ChunkWords

\* coverage_percentage = (actual_word_count / expected_word_count) * 100,
\* kept as the pair <<actual_word_count * 100, expected_word_count>>
CoveragePercentage(actual_word_count, expected_word_count) ==
  IF expected_word_count > 0
  THEN <<actual_word_count * 100, expected_word_count>>
  ELSE <<0, 1>>

\* coverage_percentage < 95.0
BelowCoverageThreshold(coverage) == coverage[1] < 95 * coverage[2]

RegeneratedTextKept(text, k, overall_status) == Append(text, k)

\* all_chunk_text += chunk_text + " ", taken back with
\* all_chunk_text[:-len(chunk_text)-1] when verify_audio_file did not pass
RegeneratedText(text, k, overall_status) ==
  IF overall_status # "PASSED"
  THEN SubSeq(Append(text, k), 1, Len(Append(text, k)) - 1)
  ELSE Append(text, k)

RunLocalsReset ==
  /\ chunk_num' = 0
  /\ completed_chunk_nums' = {}
  /\ audio_chunks' = <<>>
  /\ chunk_results' = <<>>
  /\ successful_chunks' = <<>>
  /\ failed_chunk_nums' = <<>>
  /\ calls' = <<>>
  /\ scanned' = {}
  /\ handed' = <<>>
  /\ all_chunk_text' = <<>>
  /\ coverage_percentage' = NoCoverage
  /\ coverage_warning' = FALSE

\* chunks = chunk_long_text(cleaned_text, 150), a new chunks directory
start_run(m) ==
  /\ rpc = "idle"
  /\ num_chunks' = m
  /\ rpc' = "scan"
  /\ UNCHANGED <<files, chunk_num, completed_chunk_nums, audio_chunks,
                 chunk_results, successful_chunks, failed_chunk_nums, calls,
                 scanned, handed, restitched>>
  /\ UNCHANGED covvars
  /\ UNCHANGED batch_results
  /\ UNCHANGED restitch_result
  /\ UNCHANGED servicevars

\* audio_chunks = [None] * len(chunks); scan the directory for chunk audio
scan_existing ==
  /\ rpc = "scan"
  /\ completed_chunk_nums' = ScanCompleted(files)
  /\ scanned' = files
  /\ audio_chunks' = [k \in 1..num_chunks |-> NoAudio]
  /\ chunk_num' = 1
  /\ rpc' = "main"
  /\ UNCHANGED <<files, num_chunks, chunk_results, successful_chunks,
                 failed_chunk_nums, calls, handed, restitched>>
  /\ UNCHANGED covvars
  /\ UNCHANGED batch_results
  /\ UNCHANGED restitch_result
  /\ UNCHANGED servicevars

\* what stands in calls for a time.sleep(chunk_delay) of the main loop
Delay == 0

\* if i > 0 and len([x for x in range(1, chunk_num)
\*                   if x not in completed_chunk_nums]) > 0: time.sleep(chunk_delay)
Slept(events, k, completed) ==
  IF k > 1 /\ \E x \in 1..(k - 1) : x \notin completed
  THEN Append(events, Delay)
  ELSE events

NextInMain ==
  IF chunk_num = num_chunks
  THEN rpc' = "reconcile" /\ chunk_num' = 1
  ELSE rpc' = "main" /\ chunk_num' = chunk_num + 1

BreakAfterError == rpc' = "reconcile" /\ chunk_num' = 1

\* except Exception as e: log, record the error entry for this chunk, continue
ContinueAfterError == NextInMain

\* chunk already completed: load its file into its slot, no synthesis
main_skip_existing ==
  /\ rpc = "main" /\ chunk_num \in completed_chunk_nums
  /\ IF ChunkWav(chunk_num) \in files
     THEN /\ audio_chunks' = [audio_chunks EXCEPT ![chunk_num] =
                                 Audio(chunk_num, "existing")]
          /\ chunk_results' = Append(chunk_results,
                                [chunk_number |-> chunk_num, status |-> "existing"])
     ELSE UNCHANGED <<audio_chunks, chunk_results>>
  /\ NextInMain
  /\ UNCHANGED <<files, num_chunks, completed_chunk_nums, successful_chunks,
                 failed_chunk_nums, calls, scanned, handed, restitched>>
  /\ UNCHANGED covvars
  /\ UNCHANGED batch_results
  /\ UNCHANGED restitch_result
  /\ UNCHANGED servicevars

\* generate_audio raises (timeout included), or save_wav_file raises before
\* the file exists: the except branch records the error, the slot stays empty
main_generate_fails ==
  /\ rpc = "main" /\ chunk_num \notin completed_chunk_nums
  /\ calls' = Append(Slept(calls, chunk_num, completed_chunk_nums), chunk_num)
  /\ chunk_results' = Append(chunk_results,
                        [chunk_number |-> chunk_num, status |-> "error"])
  /\ ContinueAfterError
  /\ UNCHANGED <<files, num_chunks, completed_chunk_nums, audio_chunks,
                 successful_chunks, failed_chunk_nums, scanned, handed, restitched>>
  /\ UNCHANGED covvars
  /\ UNCHANGED batch_results
  /\ UNCHANGED restitch_result
  /\ UNCHANGED servicevars

\* the chunk audio file is saved, then writing the transcription or the diff
\* raises: same except branch, but the file stays
main_fails_after_save ==
  /\ rpc = "main" /\ chunk_num \notin completed_chunk_nums
  /\ calls' = Append(Slept(calls, chunk_num, completed_chunk_nums), chunk_num)
  /\ files' = files \cup {ChunkWav(chunk_num)}
  /\ chunk_results' = Append(chunk_results,
                        [chunk_number |-> chunk_num, status |-> "error"])
  /\ ContinueAfterError
  /\ UNCHANGED <<num_chunks, completed_chunk_nums, audio_chunks,
                 successful_chunks, failed_chunk_nums, scanned, handed, restitched>>
  /\ UNCHANGED covvars
  /\ UNCHANGED batch_results
  /\ UNCHANGED restitch_result
  /\ UNCHANGED servicevars

\* synthesized, saved, verified (whatever the verification says): the audio
\* goes into the chunk's slot
main_chunk_completed ==
  /\ rpc = "main" /\ chunk_num \notin completed_chunk_nums
  /\ calls' = Append(Slept(calls, chunk_num, completed_chunk_nums), chunk_num)
  /\ files' = files \cup {ChunkWav(chunk_num)}
  /\ chunk_results' = Append(chunk_results,
                        [chunk_number |-> chunk_num, status |-> "ok"])
  /\ audio_chunks' = [audio_chunks EXCEPT ![chunk_num] = Audio(chunk_num, "main")]
  /\ NextInMain
  /\ UNCHANGED <<num_chunks, completed_chunk_nums, successful_chunks,
                 failed_chunk_nums, scanned, handed, restitched>>
  /\ UNCHANGED covvars
  /\ UNCHANGED batch_results
  /\ UNCHANGED restitch_result
  /\ UNCHANGED servicevars

NextInReconcile ==
  IF chunk_num = num_chunks
  THEN rpc' = "check" /\ chunk_num' = 0
  ELSE rpc' = "reconcile" /\ chunk_num' = chunk_num + 1

\* the slot has audio: it joins the accepted list
reconcile_include ==
  /\ rpc = "reconcile" /\ audio_chunks[chunk_num] # NoAudio
  /\ successful_chunks' = Append(successful_chunks, audio_chunks[chunk_num])
  /\ NextInReconcile
  /\ UNCHANGED <<files, num_chunks, completed_chunk_nums, audio_chunks,
                 chunk_results, failed_chunk_nums, calls, scanned, handed, restitched>>
  /\ all_chunk_text' = Append(all_chunk_text, chunk_num)
  /\ UNCHANGED <<coverage_percentage, coverage_warning>>
  /\ UNCHANGED batch_results
  /\ UNCHANGED restitch_result
  /\ UNCHANGED servicevars

\* empty slot, few failures so far: generate_audio or save_wav_file raises
reconcile_regenerate_fails ==
  /\ rpc = "reconcile" /\ audio_chunks[chunk_num] = NoAudio
  /\ Len(Append(failed_chunk_nums, chunk_num)) <= RegenFailureLimit
  /\ failed_chunk_nums' = Append(failed_chunk_nums, chunk_num)
  /\ calls' = Append(calls, chunk_num)
  /\ NextInReconcile
  /\ UNCHANGED <<files, num_chunks, completed_chunk_nums, audio_chunks,
                 chunk_results, successful_chunks, scanned, handed, restitched>>
  /\ UNCHANGED covvars
  /\ UNCHANGED batch_results
  /\ UNCHANGED restitch_result
  /\ UNCHANGED servicevars

\* empty slot, few failures so far: regenerated, saved and checked by
\* verify_audio_file
reconcile_regenerated(overall_status) ==
  /\ rpc = "reconcile" /\ audio_chunks[chunk_num] = NoAudio
  /\ Len(Append(failed_chunk_nums, chunk_num)) <= RegenFailureLimit
  /\ calls' = Append(calls, chunk_num)
  /\ files' = files \cup {RegeneratedWav(chunk_num)}
  /\ LET r == Regenerated(successful_chunks,
                          Append(failed_chunk_nums, chunk_num),
                          chunk_num, overall_status)
     IN /\ successful_chunks' = r.successful
        /\ failed_chunk_nums' = r.failed
  /\ NextInReconcile
  /\ UNCHANGED <<num_chunks, completed_chunk_nums, audio_chunks,
                 chunk_results, scanned, handed, restitched>>
  /\ all_chunk_text' = RegeneratedText(all_chunk_text, chunk_num, overall_status)
  /\ UNCHANGED <<coverage_percentage, coverage_warning>>
  /\ UNCHANGED batch_results
  /\ UNCHANGED restitch_result
  /\ UNCHANGED servicevars

\* empty slot after more than RegenFailureLimit failures: not retried
reconcile_no_retry ==
  /\ rpc = "reconcile" /\ audio_chunks[chunk_num] = NoAudio
  /\ Len(Append(failed_chunk_nums, chunk_num)) > RegenFailureLimit
  /\ failed_chunk_nums' = Append(failed_chunk_nums, chunk_num)
  /\ NextInReconcile
  /\ UNCHANGED <<files, num_chunks, completed_chunk_nums, audio_chunks,
                 chunk_results, successful_chunks, calls, scanned, handed, restitched>>
  /\ UNCHANGED covvars
  /\ UNCHANGED batch_results
  /\ UNCHANGED restitch_result
  /\ UNCHANGED servicevars

NoneOrOneAccepted(successful) == Len(successful) <= 1

\* if not successful_chunks:
AllChunksFailed(successful) == successful = <<>>

\* raise Exception("All chunks failed to process")
raise_all_failed ==
  /\ rpc = "check" /\ AllChunksFailed(successful_chunks)
  /\ rpc' = "raised"
  /\ UNCHANGED <<files, num_chunks, chunk_num, completed_chunk_nums,
                 audio_chunks, chunk_results, successful_chunks,
                 failed_chunk_nums, calls, scanned, handed, restitched>>
  /\ UNCHANGED covvars
  /\ UNCHANGED batch_results
  /\ UNCHANGED restitch_result
  /\ UNCHANGED servicevars

\* stitch_audio_chunks(successful_chunks) when there are several buffers,
\* the single buffer as it is otherwise
stitch_chapter ==
  /\ rpc = "check" /\ ~AllChunksFailed(successful_chunks)
  /\ handed' = IF Len(successful_chunks) > 1 THEN successful_chunks ELSE handed
  /\ rpc' = "done"
  /\ UNCHANGED <<files, num_chunks, chunk_num, completed_chunk_nums,
                 audio_chunks, chunk_results, successful_chunks,
                 failed_chunk_nums, calls, scanned, restitched>>
  /\ coverage_percentage' = CoveragePercentage(WordCount(all_chunk_text),
                                               num_chunks * ChunkWords)
  /\ coverage_warning' = BelowCoverageThreshold(coverage_percentage')
  /\ UNCHANGED all_chunk_text
  /\ UNCHANGED batch_results
  /\ UNCHANGED restitch_result
  /\ UNCHANGED servicevars

\* the run is started again on the same chapter, after it ended or after it
\* was interrupted: the chunks directory and its files are found again
restart_run ==
  /\ rpc \in {"main", "reconcile", "check", "done", "raised"}
  /\ rpc' = "scan"
  /\ RunLocalsReset
  /\ UNCHANGED <<files, num_chunks, restitched>>
  /\ UNCHANGED batch_results
  /\ UNCHANGED restitch_result
  /\ UNCHANGED servicevars

\* ------------------------------------------------- chunk manager operations
UpdateEveryChunk(rows, chunk_id, status, audio_file_path, score, error_message) ==
  [k \in DOMAIN rows |->
     [rows[k] EXCEPT !.status = status,
                     !.audio_file_path = audio_file_path,
                     !.verification_score = score,
                     !.error_message = error_message]]

\* update_chunk_status: one UPDATE that sets every result column to its
\* argument, also to the None defaults
UpdateChunkStatus(rows, chunk_id, status, audio_file_path, score, error_message) ==
  [k \in DOMAIN rows |->
     IF k = chunk_id
     THEN [rows[k] EXCEPT !.status = status,
                          !.audio_file_path = audio_file_path,
                          !.verification_score = score,
                          !.error_message = error_message]
     ELSE rows[k]]

\* update_chunk_status(chunk_id, status): the call with a status and none of
\* the optional result fields, which then take their None defaults
update_chunk_status(chunk_id, status) ==
  /\ lock = NoConn
  /\ db' = [db EXCEPT !.chunks =
              UpdateChunkStatus(@, chunk_id, status, NoFile, NULL, "None")]
  /\ work' = db'
  /\ UNCHANGED <<lock, proc, returned>>
  /\ UNCHANGED runvars

ReprocessedWav(k) == <<k, "_REPROCESSED.wav">>   \* chunk_{k:03d}_REPROCESSED_{ts}.wav

GetChunksByChapterUnordered(rows, chapter_id) ==
  SortedSeq({k \in DOMAIN rows : rows[k].chapter_id = chapter_id})

RECURSIVE OrderByChunkNumber(_, _)
OrderByChunkNumber(rows, ids) ==
  IF ids = {} THEN <<>>
  ELSE LET m == CHOOSE x \in ids :
                  \A y \in ids : rows[x].chunk_number <= rows[y].chunk_number
       IN <<m>> \o OrderByChunkNumber(rows, ids \ {m})

\* SELECT * FROM chunks WHERE chapter_id = ? ORDER BY chunk_number
\* (the ids of the rows, in the order returned)
GetChunksByChapter(rows, chapter_id) ==
  OrderByChunkNumber(rows, {k \in DOMAIN rows : rows[k].chapter_id = chapter_id})

\* the restitch loop: skip excluded ids, chunks that are not completed or
\* have no audio path, and chunks whose file is missing; read the others
RECURSIVE CollectAudio(_, _, _, _, _)
CollectAudio(rows, chunks, exclude_chunk_ids, dir, i) ==
  IF i > Len(chunks) THEN <<>>
  ELSE LET chunk == rows[chunks[i]]
           rest == CollectAudio(rows, chunks, exclude_chunk_ids, dir, i + 1)
       IN IF chunks[i] \in exclude_chunk_ids THEN rest
          ELSE IF chunk.status # "completed" \/ chunk.audio_file_path = NoFile
          THEN rest
          ELSE IF chunk.audio_file_path \notin dir THEN rest
          ELSE <<Audio(chunk.chunk_number, "stored")>> \o rest

DeactivateNoChapterVersion(rows, chapter_id) == rows

\* UPDATE chapter_audio_versions SET is_active = FALSE WHERE chapter_id = ?
DeactivateChapterVersions(rows, chapter_id) ==
  [k \in DOMAIN rows |->
     IF rows[k].chapter_id = chapter_id
     THEN [rows[k] EXCEPT !.is_active = FALSE] ELSE rows[k]]

\* SELECT COALESCE(MAX(version_number), 0) + 1 ... WHERE chapter_id = ?
NextChapterVersionNumber(rows, chapter_id) ==
  LET S == {rows[k].version_number :
              k \in {j \in DOMAIN rows : rows[j].chapter_id = chapter_id}}
  IN (IF S = {} THEN 0 ELSE CHOOSE x \in S : \A y \in S : y <= x) + 1

\* create_chapter_audio_version: deactivate, number, insert, one transaction
CreateChapterAudioVersion(rows, chapter_id, stitched_from_chunks, excluded_chunks) ==
  LET deactivated == DeactivateChapterVersions(rows, chapter_id)
  IN Append(deactivated,
            [chapter_id |-> chapter_id,
             version_number |-> NextChapterVersionNumber(deactivated, chapter_id),
             is_active |-> TRUE,
             stitched_from_chunks |-> stitched_from_chunks,
             excluded_chunks |-> excluded_chunks])

RECURSIVE OrderByVersionDesc(_, _)
OrderByVersionDesc(rows, ids) ==
  IF ids = {} THEN <<>>
  ELSE LET m == CHOOSE x \in ids :
                  \A y \in ids : rows[y].version_number <= rows[x].version_number
       IN <<rows[m]>> \o OrderByVersionDesc(rows, ids \ {m})

\* list_chapter_audio_versions: ... WHERE chapter_id = ? ORDER BY version_number DESC
ListChapterAudioVersions(rows, chapter_id) ==
  OrderByVersionDesc(rows, {k \in DOMAIN rows : rows[k].chapter_id = chapter_id})

\* filter a sequence of ids
RECURSIVE Without(_, _)
Without(seq, S) ==
  IF seq = <<>> THEN <<>>
  ELSE IF Head(seq) \in S THEN Without(Tail(seq), S)
  ELSE <<Head(seq)>> \o Without(Tail(seq), S)

\* restitch_chapter_audio(chapter_id, exclude_chunk_ids)
NoValidAudioIgnored(collected) == FALSE

\* if not audio_chunks: raise ValueError("No valid audio chunks found ...")
NoValidAudio(collected) == collected = <<>>

restitch_chapter_audio(chapter_id, exclude_chunk_ids) ==
  /\ lock = NoConn
  /\ Len(db.chapter_audio_versions) < MaxChapterVersions
  /\ LET chunks == GetChunksByChapter(db.chunks, chapter_id)
         collected == CollectAudio(db.chunks, chunks, exclude_chunk_ids, files, 1)
     IN IF chunks = <<>>
        THEN /\ restitch_result' = "ValueError: Chapter or chunks not found"
             /\ UNCHANGED <<db, work, restitched>>
        ELSE IF NoValidAudio(collected)
        THEN /\ restitch_result' = "ValueError: No valid audio chunks found for stitching"
             /\ UNCHANGED <<db, work, restitched>>
        ELSE /\ restitch_result' = "ok"
             /\ restitched' = IF Len(collected) = 1 THEN restitched ELSE collected
             /\ db' = [db EXCEPT !.chapter_audio_versions =
                         CreateChapterAudioVersion(@, chapter_id,
                                                   Without(chunks, exclude_chunk_ids),
                                                   SortedSeq(exclude_chunk_ids))]
             /\ work' = db'
  /\ UNCHANGED <<lock, proc, returned, files, rpc, num_chunks, chunk_num,
                 completed_chunk_nums, audio_chunks, chunk_results,
                 successful_chunks, failed_chunk_nums, calls, scanned, handed>>
  /\ UNCHANGED covvars
  /\ UNCHANGED batch_results
  /\ UNCHANGED servicevars

\* create_chapter_audio_version called by the audio endpoint to register a
\* stitched file it found: stitched_from_chunks = every chunk id of the chapter
create_chapter_audio_version(chapter_id) ==
  /\ lock = NoConn
  /\ Len(db.chapter_audio_versions) < MaxChapterVersions
  /\ db' = [db EXCEPT !.chapter_audio_versions =
              CreateChapterAudioVersion(@, chapter_id,
                                        GetChunksByChapter(db.chunks, chapter_id),
                                        <<>>)]
  /\ work' = db'
  /\ UNCHANGED <<lock, proc, returned>>
  /\ UNCHANGED runvars

\* outcomes of one reprocess_single_chunk: what raised, if anything
Outcomes == {"ok", "generate_error", "verify_error"}
\* verification.accuracy_score, in hundredths
Scores == {0, 50, 90}

\* how one reprocess_single_chunk can go: the score verification returns
\* when nothing raised, no score otherwise
Attempts ==
  [outcome : {"ok"}, score : Scores]
    \cup [outcome : Outcomes \ {"ok"}, score : {NULL}]

Range(seq) == {seq[j] : j \in DOMAIN seq}

\* the chunks row after reprocess_single_chunk(chunk_id): 'processing', then
\* 'completed' with the new file and score; any exception ends in 'failed'
ReprocessedRows(rows, chunk_id, outcome, score) ==
  IF outcome = "ok"
  THEN UpdateChunkStatus(rows, chunk_id, "completed",
                         ReprocessedWav(rows[chunk_id].chunk_number), score, "None")
  ELSE UpdateChunkStatus(rows, chunk_id, "failed", NoFile, NULL, "error")

\* the chunks directory after reprocess_single_chunk(chunk_id)
ReprocessedFiles(dir, rows, chunk_id, outcome) ==
  IF outcome = "generate_error" THEN dir
  ELSE dir \cup {ReprocessedWav(rows[chunk_id].chunk_number)}

\* reprocess_single_chunk(chunk_id): synthesize, save, verify, update the row
reprocess_single_chunk(chunk_id, outcome, score) ==
  /\ lock = NoConn
  /\ chunk_id \in DOMAIN db.chunks
  /\ files' = ReprocessedFiles(files, db.chunks, chunk_id, outcome)
  /\ db' = [db EXCEPT !.chunks = ReprocessedRows(@, chunk_id, outcome, score)]
  /\ work' = db'
  /\ UNCHANGED <<lock, proc, returned, rpc, num_chunks, chunk_num,
                 completed_chunk_nums, audio_chunks, chunk_results,
                 successful_chunks, failed_chunk_nums, calls, scanned, handed,
                 restitched>>
  /\ UNCHANGED covvars
  /\ UNCHANGED batch_results
  /\ UNCHANGED restitch_result
  /\ UNCHANGED servicevars

\* reprocess_single_chunk run as a background task of the web API, up to
\* its generate_audio call: the chunk is looked up and marked 'processing'
reprocess_task_start(p, chunk_id) ==
  /\ proc[p].op = "idle"
  /\ lock = NoConn
  /\ IF chunk_id \in DOMAIN db.chunks
     THEN /\ db' = [db EXCEPT !.chunks =
                      UpdateChunkStatus(@, chunk_id, "processing", NoFile, NULL, "None")]
          /\ work' = db'
          /\ proc' = [proc EXCEPT ![p] = [Idle EXCEPT !.op = "reprocess_single_chunk",
                                                     !.pc = "generate_audio",
                                                     !.id = chunk_id]]
     ELSE /\ proc' = [proc EXCEPT ![p] = [Idle EXCEPT !.op = "reprocess_single_chunk",
                                                     !.pc = "done",
                                                     !.id = chunk_id,
                                                     !.result = "not found"]]
          /\ UNCHANGED <<db, work>>
  /\ UNCHANGED <<lock, returned>>
  /\ UNCHANGED runvars

\* generate_audio returns or raises, and the task goes on to its end
reprocess_task_end(p, outcome, score) ==
  /\ proc[p].op = "reprocess_single_chunk" /\ proc[p].pc = "generate_audio"
  /\ lock = NoConn
  /\ files' = ReprocessedFiles(files, db.chunks, proc[p].id, outcome)
  /\ db' = [db EXCEPT !.chunks = ReprocessedRows(@, proc[p].id, outcome, score)]
  /\ work' = db'
  /\ proc' = [proc EXCEPT ![p].pc = "done",
                          ![p].result = IF outcome = "ok" THEN "True" ELSE "False"]
  /\ UNCHANGED <<lock, returned, rpc, num_chunks, chunk_num,
                 completed_chunk_nums, audio_chunks, chunk_results,
                 successful_chunks, failed_chunk_nums, calls, scanned, handed,
                 restitched>>
  /\ UNCHANGED covvars
  /\ UNCHANGED batch_results
  /\ UNCHANGED restitch_result
  /\ UNCHANGED servicevars

\* UPDATE chunks SET status = 'needs_reprocess', error_message = ? WHERE id = ?
MarkChunkForReprocessing(rows, chunk_id) ==
  [k \in DOMAIN rows |->
     IF k = chunk_id
     THEN [rows[k] EXCEPT !.status = "needs_reprocess", !.error_message = "reason"]
     ELSE rows[k]]

mark_chunk_for_reprocessing(chunk_id) ==
  /\ lock = NoConn
  /\ db' = [db EXCEPT !.chunks = MarkChunkForReprocessing(@, chunk_id)]
  /\ work' = db'
  /\ UNCHANGED <<lock, proc, returned>>
  /\ UNCHANGED runvars

\* batch_results before any batch call
NoBatch == [calls |-> 0, chunks |-> <<>>]

\* SELECT * FROM chunks WHERE chapter_id = ? AND status = 'needs_reprocess'
\* ORDER BY chunk_number
GetChunksNeedingReprocessing(rows, chapter_id) ==
  OrderByChunkNumber(rows, {k \in DOMAIN rows :
                              /\ rows[k].chapter_id = chapter_id
                              /\ rows[k].status = "needs_reprocess"})

\* chunk.verification_score and chunk.verification_score < 0.85: None and
\* 0.0 are both false in the first operand
LowQualityScore(score) == score # NULL /\ score # 0 /\ score < LowQualityThreshold

\* the low-quality completed chunks appended to the selection, in
\* get_chunks_by_chapter order
RECURSIVE AlsoLowQuality(_, _, _, _)
AlsoLowQuality(rows, all_chunks, chunks, i) ==
  IF i > Len(all_chunks) THEN chunks
  ELSE LET chunk == all_chunks[i]
           take == /\ LowQualityScore(rows[chunk].verification_score)
                   /\ rows[chunk].status = "completed"
                   /\ \A j \in DOMAIN chunks : chunks[j] # chunk
       IN AlsoLowQuality(rows, all_chunks,
                         IF take THEN Append(chunks, chunk) ELSE chunks, i + 1)

\* the chunks batch_reprocess_failed_chunks loops over
BatchSelection(rows, chapter_id) ==
  AlsoLowQuality(rows, GetChunksByChapter(rows, chapter_id),
                 GetChunksNeedingReprocessing(rows, chapter_id), 1)

\* for chunk in chunks: success = self.reprocess_single_chunk(chunk.id)
RECURSIVE BatchLoop(_, _, _, _, _)
BatchLoop(state, chunks, outcome, score, i) ==
  IF i > Len(chunks) THEN state
  ELSE LET c == chunks[i]
       IN BatchLoop([rows |-> ReprocessedRows(state.rows, c, outcome[c], score[c]),
                     dir |-> ReprocessedFiles(state.dir, state.rows, c, outcome[c]),
                     chunks |-> Append(state.chunks, c)],
                    chunks, outcome, score, i + 1)

\* batch_reprocess_failed_chunks(chapter_id); outcome and score say how the
\* reprocess of each chunk goes
batch_reprocess_failed_chunks(chapter_id, outcome, score) ==
  /\ lock = NoConn
  /\ LET end == BatchLoop([rows |-> db.chunks, dir |-> files, chunks |-> <<>>],
                           BatchSelection(db.chunks, chapter_id), outcome, score, 1)
     IN /\ db' = [db EXCEPT !.chunks = end.rows]
        /\ files' = end.dir
        /\ batch_results' = [calls |-> (batch_results.calls + 1) % 2,
                              chunks |-> end.chunks]
  /\ work' = db'
  /\ UNCHANGED <<lock, proc, returned, rpc, num_chunks, chunk_num,
                 completed_chunk_nums, audio_chunks, chunk_results,
                 successful_chunks, failed_chunk_nums, calls, scanned, handed,
                 restitched>>
  /\ UNCHANGED covvars
  /\ UNCHANGED restitch_result
  /\ UNCHANGED servicevars

\* the caller has its result and is free for another call
Return(p) ==
  /\ proc[p].pc = "done"
  /\ proc' = [proc EXCEPT ![p] = Idle]
  /\ UNCHANGED <<db, work, lock, returned>>

\* ------------------------------------------- FalTTSClient.generate_audio
\* config.fal_config.get("retry_attempts", 3)
DefaultRetryAttempts == 3

\* how one remote attempt can fail, by what the error message contains:
\* "timeout", "rate limit" or "429", or neither (a permanent error)
ErrorKinds == {"timeout", "rate limit", "other"}

CanRetryOnLast(a, n) == a < n

\* if attempt < self.retry_attempts - 1:
CanRetry(a, n) == a < n - 1

\* backoff_time = (2 ** attempt) * 2, wait_time = (2 ** attempt) * 10,
\* backoff_time = 2 ** attempt
BackoffTime(kind, a) ==
  IF kind = "timeout" THEN (2 ^ a) * 2
  ELSE IF kind = "rate limit" THEN (2 ^ a) * 10
  ELSE 2 ^ a

\* FalTTSClient(): a client is built from the configuration
fal_init(n) ==
  /\ gpc = "idle"
  /\ retry_attempts' = n
  /\ attempt' = 0
  /\ remote_calls' = <<>>
  /\ sleeps' = <<>>
  /\ audio_result' = "none"
  /\ UNCHANGED gpc

\* generate_audio(text) up to the first iteration of the retry loop
generate_audio(text) ==
  /\ gpc = "idle"
  /\ attempt' = 0
  /\ remote_calls' = <<>>
  /\ sleeps' = <<>>
  /\ IF text = ""
     THEN gpc' = "returned" /\ audio_result' = "ValueError: Text cannot be empty"
     ELSE IF 0 < retry_attempts
     THEN gpc' = "attempt" /\ audio_result' = "none"
     ELSE gpc' = "returned" /\ audio_result' = "Exception: All retry attempts failed"
  /\ UNCHANGED retry_attempts

\* the end of an iteration that did not return or raise: next attempt, or
\* the loop is exhausted
NextAttempt ==
  /\ attempt' = attempt + 1
  /\ IF attempt + 1 < retry_attempts
     THEN gpc' = "attempt" /\ audio_result' = "none"
     ELSE gpc' = "returned" /\ audio_result' = "Exception: All retry attempts failed"

\* one iteration: fal_client.subscribe and the download succeed
attempt_returns_audio ==
  /\ gpc = "attempt"
  /\ remote_calls' = Append(remote_calls, "audio")
  /\ audio_result' = "audio"
  /\ gpc' = "returned"
  /\ UNCHANGED <<retry_attempts, attempt, sleeps>>

\* one iteration: the remote call or the download raises; except Exception
attempt_fails(kind) ==
  /\ gpc = "attempt"
  /\ remote_calls' = Append(remote_calls, kind)
  /\ IF kind \in {"timeout", "rate limit"}
     THEN IF CanRetry(attempt, retry_attempts)
          THEN /\ sleeps' = Append(sleeps, [attempt |-> attempt, kind |-> kind,
                                            seconds |-> BackoffTime(kind, attempt)])
               /\ NextAttempt
          ELSE /\ audio_result' = IF kind = "timeout"
                                   THEN "TimeoutError: timed out after all attempts"
                                   ELSE "Exception: Rate limit exceeded"
               /\ gpc' = "returned"
               /\ UNCHANGED <<attempt, sleeps>>
     ELSE IF attempt = retry_attempts - 1
          THEN /\ audio_result' = "Exception: generation failed after all attempts"
               /\ gpc' = "returned"
               /\ UNCHANGED <<attempt, sleeps>>
          ELSE /\ sleeps' = Append(sleeps, [attempt |-> attempt, kind |-> kind,
                                            seconds |-> BackoffTime(kind, attempt)])
               /\ NextAttempt
  /\ UNCHANGED retry_attempts

\* the SIGALRM set by the chapter run around generate_audio goes off while
\* the remote call is in progress: the handler raises TimeoutError("TTS
\* generation timeout") inside the try block, where except Exception takes
\* it for a failed attempt whose message contains "timeout"
alarm_fires ==
  /\ gpc = "attempt"
  /\ \A j \in DOMAIN remote_calls : remote_calls[j] # "alarm"
  /\ remote_calls' = Append(remote_calls, "alarm")
  /\ IF CanRetry(attempt, retry_attempts)
     THEN /\ sleeps' = Append(sleeps, [attempt |-> attempt, kind |-> "timeout",
                                       seconds |-> BackoffTime("timeout", attempt)])
          /\ NextAttempt
     ELSE /\ audio_result' = "TimeoutError: timed out after all attempts"
          /\ gpc' = "returned"
          /\ UNCHANGED <<attempt, sleeps>>
  /\ UNCHANGED retry_attempts

\* an attempt fails and is to be retried; the alarm goes off during the
\* time.sleep of the except block, outside any try: the TimeoutError of the
\* handler leaves generate_audio
alarm_fires_in_backoff(kind) ==
  /\ gpc = "attempt"
  /\ \A j \in DOMAIN remote_calls : remote_calls[j] # "alarm"
  /\ IF kind \in {"timeout", "rate limit"}
     THEN CanRetry(attempt, retry_attempts)
     ELSE attempt # retry_attempts - 1
  /\ remote_calls' = Append(remote_calls, kind)
  /\ sleeps' = Append(sleeps, [attempt |-> attempt, kind |-> kind,
                              seconds |-> BackoffTime(kind, attempt)])
  /\ audio_result' = "TimeoutError: TTS generation timeout"
  /\ gpc' = "returned"
  /\ UNCHANGED <<retry_attempts, attempt>>

\* the caller has the bytes or the exception
generate_returns ==
  /\ gpc = "returned"
  /\ gpc' = "idle"
  /\ UNCHANGED <<retry_attempts, attempt, remote_calls, sleeps, audio_result>>

\* --------------------------------------- AudioVerifier.verify_audio_content
\* config.tts_settings.get("verification_threshold", 0.85), in hundredths
AccuracyThreshold == 85

\* enable_verification defaults to True; faster-whisper installed and loaded
DefaultVerifier == [verification_enabled |-> TRUE, WHISPER_AVAILABLE |-> TRUE, model |-> TRUE]

NoVerification == [returned |-> FALSE]

\* what self.model.transcribe does when called: a transcript whose
\* similarity with the original is accuracy_score, or an exception
Transcriptions ==
  [raises : {FALSE}, accuracy_score : {0, 84, 85, 100}, message : {""}]
    \cup [raises : {TRUE}, accuracy_score : {0},
          message : {"CUDA out of memory", "Invalid data found when processing input"}]

\* a VerificationResult handed to the caller
VerificationResult(accuracy_score, is_verified, error_message, stt_called) ==
  [returned |-> TRUE, raised |-> FALSE, accuracy_score |-> accuracy_score,
   is_verified |-> is_verified, error_message |-> error_message,
   stt_called |-> stt_called]

TranscriptionErrorRaised(message) ==
  [returned |-> TRUE, raised |-> TRUE, accuracy_score |-> 0,
   is_verified |-> FALSE, error_message |-> message, stt_called |-> TRUE]

\* except Exception as e: ... error_message=str(e)
TranscriptionError(message) == VerificationResult(0, FALSE, message, TRUE)

\* AudioVerifier(): the model is loaded when verification is enabled and
\* faster-whisper is installed; a failed load leaves model = None
verifier_init(enabled, available, loads) ==
  /\ verifier' = [verification_enabled |-> enabled, WHISPER_AVAILABLE |-> available,
                  model |-> (enabled /\ available /\ loads)]
  /\ verification' = NoVerification

\* verify_audio_content(audio_path, original_text)
verify_audio_content(stt) ==
  /\ verification' =
       IF ~verifier.verification_enabled
       THEN VerificationResult(100, TRUE, "Verification disabled", FALSE)
       ELSE IF ~verifier.WHISPER_AVAILABLE
       THEN VerificationResult(0, FALSE, "faster-whisper not installed", FALSE)
       ELSE IF ~verifier.model
       THEN VerificationResult(0, FALSE, "Whisper model not loaded", FALSE)
       ELSE IF stt.raises
       THEN TranscriptionError(stt.message)
       ELSE VerificationResult(stt.accuracy_score,
                               stt.accuracy_score >= AccuracyThreshold, "None", TRUE)
  /\ UNCHANGED verifier

\* ------------------------------------------- AudioVerifier._compare_texts
\* A string is the sequence of its characters.
Whitespace == {" "}
LowerLetters == <<"a", "b", "c", "d", "e", "f", "g", "h", "i", "j", "k", "l", "m", "n", "o", "p", "q", "r", "s", "t", "u", "v", "w", "x", "y", "z">>
UpperLetters == <<"A", "B", "C", "D", "E", "F", "G", "H", "I", "J", "K", "L", "M", "N", "O", "P", "Q", "R", "S", "T", "U", "V", "W", "X", "Y", "Z">>
Digits == {"0", "1", "2", "3", "4", "5", "6", "7", "8", "9"}
\* \w
WordCharacters == Range(LowerLetters) \cup Range(UpperLetters) \cup Digits \cup {"_"}
LowerCase == [c \in Range(UpperLetters) |-> LowerLetters[CHOOSE p \in DOMAIN UpperLetters : UpperLetters[p] = c]]

\* str.lower()
Lower(text) == [p \in DOMAIN text |-> IF text[p] \in DOMAIN LowerCase THEN LowerCase[text[p]] ELSE text[p]]

\* re.sub(r'[^\w\s]', '', text)
RemovePunctuation(text) ==
  LET IsWordOrSpace(c) == c \in WordCharacters \/ c \in Whitespace
  IN SelectSeq(text, IsWordOrSpace)

\* re.sub(r'\s+', ' ', text)
RECURSIVE CollapseWhitespace(_)
CollapseWhitespace(text) ==
  IF text = <<>> THEN <<>>
  ELSE IF text[1] \in Whitespace
       THEN IF Len(text) > 1 /\ text[2] \in Whitespace
            THEN CollapseWhitespace(Tail(text))
            ELSE <<" ">> \o CollapseWhitespace(Tail(text))
       ELSE <<text[1]>> \o CollapseWhitespace(Tail(text))

\* str.replace(old, new): leftmost occurrences, not overlapping
RECURSIVE Replace(_, _, _)
Replace(text, old, new) ==
  IF Len(text) < Len(old) THEN text
  ELSE IF SubSeq(text, 1, Len(old)) = old
       THEN new \o Replace(SubSeq(text, Len(old) + 1, Len(text)), old, new)
       ELSE <<text[1]>> \o Replace(Tail(text), old, new)

\* str.strip()
RECURSIVE Strip(_)
Strip(text) ==
  IF text = <<>> THEN <<>>
  ELSE IF text[1] \in Whitespace THEN Strip(Tail(text))
  ELSE IF text[Len(text)] \in Whitespace THEN Strip(SubSeq(text, 1, Len(text) - 1))
  ELSE text

\* str.split(): the maximal runs of characters that are not whitespace
RECURSIVE Split(_)
Split(text) ==
  IF text = <<>> THEN <<>>
  ELSE IF text[1] \in Whitespace THEN Split(Tail(text))
  ELSE LET ends == {p \in DOMAIN text : text[p] \in Whitespace}
           stop == IF ends = {} THEN Len(text) + 1
                   ELSE CHOOSE p \in ends : \A q \in ends : p <= q
       IN <<SubSeq(text, 1, stop - 1)>> \o Split(SubSeq(text, stop, Len(text)))

\* the replacements of _normalize_text, in the order of the dict
SpellingVariations == <<
  << <<"c","e","n","t","r","e">>, <<"c","e","n","t","e","r">> >>,
  << <<"c","o","l","o","u","r">>, <<"c","o","l","o","r">> >>,
  << <<"o","r","g","a","n","i","s","e">>, <<"o","r","g","a","n","i","z","e">> >>,
  << <<"r","e","c","o","g","n","i","s","e">>, <<"r","e","c","o","g","n","i","z","e">> >>,
  << <<"a","n","a","l","y","s","e">>, <<"a","n","a","l","y","z","e">> >>,
  << <<"p","r","i","o","r","i","t","i","s","e">>, <<"p","r","i","o","r","i","t","i","z","e">> >> >>

RECURSIVE ReplaceAll(_, _)
ReplaceAll(text, replacements) ==
  IF replacements = <<>> THEN text
  ELSE ReplaceAll(Replace(Replace(text, replacements[1][1], replacements[1][2]),
                          replacements[1][2], replacements[1][2]),
                  Tail(replacements))

normalize_text(text) == Strip(ReplaceAll(CollapseWhitespace(RemovePunctuation(Lower(text))), SpellingVariations))

\* difflib.SequenceMatcher.find_longest_match over a[alo:ahi] and b[blo:bhi]
\* (positions from 1, ahi and bhi excluded; no junk, inputs are far below the
\* 200 elements where autojunk starts): the longest common block, of those the
\* one that starts earliest in a, of those the one that starts earliest in b
find_longest_match(a, alo, ahi, b, blo, bhi) ==
  LET BlockSize(p, q) ==
        LET most == IF ahi - p < bhi - q THEN ahi - p ELSE bhi - q
        IN CHOOSE size \in 0..most :
             /\ \A t \in 0..(size - 1) : a[p + t] = b[q + t]
             /\ size = most \/ a[p + size] # b[q + size]
      blocks == {<<p, q, BlockSize(p, q)>> : p \in alo..(ahi - 1), q \in blo..(bhi - 1)}
      found == {m \in blocks : m[3] > 0}
  IN IF found = {} THEN <<alo, blo, 0>>
     ELSE CHOOSE m \in found :
            \A o \in found :
              \/ m[3] > o[3]
              \/ m[3] = o[3] /\ m[1] < o[1]
              \/ m[3] = o[3] /\ m[1] = o[1] /\ m[2] <= o[2]

\* SequenceMatcher.get_matching_blocks: the longest block, then the same to
\* its left and to its right; Matches is the sum of the block sizes
RECURSIVE Matches(_, _, _, _, _, _)
Matches(a, alo, ahi, b, blo, bhi) ==
  LET m == find_longest_match(a, alo, ahi, b, blo, bhi)
  IN IF m[3] = 0 THEN 0
     ELSE Matches(a, alo, m[1], b, blo, m[2]) + m[3]
          + Matches(a, m[1] + m[3], ahi, b, m[2] + m[3], bhi)

\* SequenceMatcher.ratio(): 2.0 * matches / length, 1.0 when both are empty;
\* a fraction <<numerator, denominator>>
Ratio(a, b) ==
  IF Len(a) + Len(b) = 0 THEN <<1, 1>>
  ELSE <<2 * Matches(a, 1, Len(a) + 1, b, 1, Len(b) + 1), Len(a) + Len(b)>>

\* the lines difflib.unified_diff writes for a hunk: ' ' + line for a common
\* line, '-' + line for the lines of a between two blocks, then '+' + line
\* for the lines of b between them
Prefixed(sign, lines, lo, hi) == [p \in 1..(hi - lo) |-> <<sign>> \o lines[lo + p - 1]]

RECURSIVE HunkLines(_, _, _, _, _, _)
HunkLines(a, alo, ahi, b, blo, bhi) ==
  LET m == find_longest_match(a, alo, ahi, b, blo, bhi)
  IN IF m[3] = 0 THEN Prefixed("-", a, alo, ahi) \o Prefixed("+", b, blo, bhi)
     ELSE HunkLines(a, alo, m[1], b, blo, m[2])
          \o Prefixed(" ", a, m[1], m[1] + m[3])
          \o HunkLines(a, m[1] + m[3], ahi, b, m[2] + m[3], bhi)

\* difflib.unified_diff(a, b, lineterm=''): nothing when the sequences are
\* equal, otherwise '--- ', '+++ ', the hunk header '@@ ... @@' and the hunk.
\* With 3 lines of context a sequence of at most 4 lines is one hunk.
unified_diff(a, b) ==
  IF a = b THEN <<>>
  ELSE << <<"-", "-", "-", " ">>, <<"+", "+", "+", " ">>, <<"@", "@", " ">> >>
       \o HunkLines(a, 1, Len(a) + 1, b, 1, Len(b) + 1)

\* str.startswith(prefix)
StartsWith(line, prefix) == Len(line) >= Len(prefix) /\ SubSeq(line, 1, Len(prefix)) = prefix

\* [line[2:] for line in word_diffs if line.startswith(prefix)]
RECURSIVE WordsMarked(_, _)
WordsMarked(word_diffs, prefix) ==
  IF word_diffs = <<>> THEN <<>>
  ELSE (IF StartsWith(word_diffs[1], prefix)
        THEN <<SubSeq(word_diffs[1], 3, Len(word_diffs[1]))>> ELSE <<>>)
       \o WordsMarked(Tail(word_diffs), prefix)

NoComparison == [returned |-> FALSE]

\* ComparisonResult of _compare_texts; rates are fractions <<numerator, denominator>>
\* (character_error_rate, 1.0 - similarity, is left out: no statement reads it)
ComparisonResult(orig_text, trans_text) ==
  LET orig_normalized == normalize_text(orig_text)
      trans_normalized == normalize_text(trans_text)
      orig_words == Split(orig_normalized)
      trans_words == Split(trans_normalized)
      similarity == Ratio(orig_normalized, trans_normalized)
      word_diffs == unified_diff(orig_words, trans_words)
      missing_words == WordsMarked(word_diffs, <<"-", " ">>)
      extra_words == WordsMarked(word_diffs, <<"+", " ">>)
  IN [returned |-> TRUE,
      accuracy_score |-> similarity,
      word_error_rate |-> <<Len(missing_words \o extra_words),
                            IF Len(orig_words) > 1 THEN Len(orig_words) ELSE 1>>,
      missing_words |-> missing_words,
      extra_words |-> extra_words]

CompareIdle ==
  /\ original = <<>>
  /\ transcribed = <<>>
  /\ comparison_result = NoComparison

compare_texts ==
  /\ comparison_result = NoComparison
  /\ comparison_result' = ComparisonResult(original, transcribed)
  /\ UNCHANGED <<original, transcribed>>

\* ------------------------------------------- TextProcessor.chunk_long_text
SentenceEnd == {".", "!", "?"}

\* nltk.sent_tokenize on texts without abbreviations, numbers or initials: a
\* sentence ends with a '.', '!' or '?' that is followed by whitespace or by
\* the end of the text; the whitespace between sentences is dropped
RECURSIVE sent_tokenize(_)
sent_tokenize(text) ==
  IF text = <<>> THEN <<>>
  ELSE IF text[1] \in Whitespace THEN sent_tokenize(Tail(text))
  ELSE LET ends == {p \in DOMAIN text : /\ text[p] \in SentenceEnd
                                        /\ p = Len(text) \/ text[p + 1] \in Whitespace}
           stop == IF ends = {} THEN Len(Strip(text))
                   ELSE CHOOSE p \in ends : \A q \in ends : p <= q
       IN <<SubSeq(text, 1, stop)>> \o sent_tokenize(SubSeq(text, stop + 1, Len(text)))

\* len(current_chunk + " " + sentence) <= max_length
FitsWithoutSeparator(current_chunk, sentence, max_length) == Len(current_chunk \o sentence) <= max_length

Fits(current_chunk, sentence, max_length) == Len(current_chunk \o <<" ">> \o sentence) <= max_length

\* the loop over sentences, from current_chunk and the chunks saved so far
RECURSIVE ChunkLoop(_, _, _, _)
ChunkLoop(sentences, current_chunk, chunks, max_length) ==
  IF sentences = <<>> THEN <<chunks, current_chunk>>
  ELSE IF current_chunk = <<>>
       THEN ChunkLoop(Tail(sentences), sentences[1], chunks, max_length)
  ELSE IF Fits(current_chunk, sentences[1], max_length)
       THEN ChunkLoop(Tail(sentences), current_chunk \o <<" ">> \o sentences[1], chunks, max_length)
  ELSE ChunkLoop(Tail(sentences), sentences[1], Append(chunks, Strip(current_chunk)), max_length)

\* if current_chunk.strip(): chunks.append(current_chunk.strip())
LastChunkDropped(chunks, current_chunk) == chunks

LastChunk(chunks, current_chunk) == IF Strip(current_chunk) # <<>> THEN Append(chunks, Strip(current_chunk)) ELSE chunks

\* the second loop copies every chunk to final_chunks and only logs a warning
chunk_long_text(text, max_length) ==
  IF Len(text) <= max_length THEN <<text>>
  ELSE LET looped == ChunkLoop(sent_tokenize(text), <<>>, <<>>, max_length)
       IN LastChunk(looped[1], looped[2])

NoChunks == [returned |-> FALSE]

ChunkingIdle ==
  /\ long_text = <<>>
  /\ length_limit = 0
  /\ final_chunks = NoChunks

chunk_text ==
  /\ final_chunks = NoChunks
  /\ final_chunks' = [returned |-> TRUE, chunks |-> chunk_long_text(long_text, length_limit)]
  /\ UNCHANGED <<long_text, length_limit>>

\* ------------------------------------------------ TextProcessor.clean_text
\* characters outside ASCII are named: low9quote, laquo, raquo, endash, emdash
\* r'[""' '„"«»]': the two apostrophes in the source end one literal and open the next
QuoteCharacters == {"\"", "low9quote", "laquo", "raquo"}
DashCharacters == {"endash", "emdash"}
Punctuation == {",", ".", "!", "?", ";", ":"}
KeptCharacters == WordCharacters \cup Whitespace \cup Punctuation \cup {"(", ")", "'", "-"}

\* re.sub(r'[...]', replacement, text) for a class of single characters
ReplaceCharacters(text, class, replacement) == [p \in DOMAIN text |-> IF text[p] \in class THEN replacement ELSE text[p]]

\* length of the longest prefix of text made of characters of class
RECURSIVE RunLength(_, _)
RunLength(text, class) ==
  IF text # <<>> /\ text[1] \in class THEN 1 + RunLength(Tail(text), class) ELSE 0

Drop(text, count) == SubSeq(text, count + 1, Len(text))

\* re.sub(r'\.{2,}', '.', text)
RECURSIVE FixEllipsis(_)
FixEllipsis(text) ==
  IF text = <<>> THEN <<>>
  ELSE IF RunLength(text, {"."}) >= 2
       THEN <<".">> \o FixEllipsis(Drop(text, RunLength(text, {"."})))
       ELSE <<text[1]>> \o FixEllipsis(Tail(text))

\* re.sub(r'\s+([,.!?;:])', r'\1', text)
RECURSIVE RemoveSpaceBeforePunctuation(_)
RemoveSpaceBeforePunctuation(text) ==
  LET spaces == RunLength(text, Whitespace)
  IN IF text = <<>> THEN <<>>
     ELSE IF spaces > 0 /\ spaces < Len(text) /\ text[spaces + 1] \in Punctuation
          THEN <<text[spaces + 1]>> \o RemoveSpaceBeforePunctuation(Drop(text, spaces + 1))
     ELSE IF spaces > 0
          THEN SubSeq(text, 1, spaces) \o RemoveSpaceBeforePunctuation(Drop(text, spaces))
     ELSE <<text[1]>> \o RemoveSpaceBeforePunctuation(Tail(text))

\* re.sub(r'([.!?])\s*([A-Z])', r'\1 \2', text)
RECURSIVE SpaceAfterSentenceEnd(_)
SpaceAfterSentenceEnd(text) ==
  LET spaces == IF text = <<>> THEN 0 ELSE RunLength(Tail(text), Whitespace)
  IN IF text = <<>> THEN <<>>
     ELSE IF /\ text[1] \in SentenceEnd
             /\ spaces + 2 <= Len(text)
             /\ text[spaces + 2] \in Range(UpperLetters)
          THEN <<text[1], " ", text[spaces + 2]>> \o SpaceAfterSentenceEnd(Drop(text, spaces + 2))
     ELSE <<text[1]>> \o SpaceAfterSentenceEnd(Tail(text))

\* re.sub(r'[^\w\s.,!?;:()\'-]', '', text)
RemoveSpecialCharacters(text) ==
  LET IsKept(c) == c \in KeptCharacters
  IN SelectSeq(text, IsKept)

\* re.sub(r'\(\s+', '(', text)
RECURSIVE FixOpenParenthesis(_)
FixOpenParenthesis(text) ==
  IF text = <<>> THEN <<>>
  ELSE IF text[1] = "(" /\ RunLength(Tail(text), Whitespace) > 0
       THEN <<"(">> \o FixOpenParenthesis(Drop(text, 1 + RunLength(Tail(text), Whitespace)))
       ELSE <<text[1]>> \o FixOpenParenthesis(Tail(text))

\* re.sub(r'\s+\)', ')', text)
RECURSIVE FixCloseParenthesis(_)
FixCloseParenthesis(text) ==
  LET spaces == RunLength(text, Whitespace)
  IN IF text = <<>> THEN <<>>
     ELSE IF spaces > 0 /\ spaces < Len(text) /\ text[spaces + 1] = ")"
          THEN <<")">> \o FixCloseParenthesis(Drop(text, spaces + 1))
     ELSE IF spaces > 0
          THEN SubSeq(text, 1, spaces) \o FixCloseParenthesis(Drop(text, spaces))
     ELSE <<text[1]>> \o FixCloseParenthesis(Tail(text))

\* self.au_spellings, in the order of the dict
au_spellings == <<
  << <<"c", "o", "l", "o", "r">>, <<"c", "o", "l", "o", "u", "r">> >>,
  << <<"f", "a", "v", "o", "r">>, <<"f", "a", "v", "o", "u", "r">> >>,
  << <<"h", "o", "n", "o", "r">>, <<"h", "o", "n", "o", "u", "r">> >>,
  << <<"l", "a", "b", "o", "r">>, <<"l", "a", "b", "o", "u", "r">> >>,
  << <<"o", "r", "g", "a", "n", "i", "z", "e">>, <<"o", "r", "g", "a", "n", "i", "s", "e">> >>,
  << <<"r", "e", "c", "o", "g", "n", "i", "z", "e">>, <<"r", "e", "c", "o", "g", "n", "i", "s", "e">> >>,
  << <<"r", "e", "a", "l", "i", "z", "e">>, <<"r", "e", "a", "l", "i", "s", "e">> >>,
  << <<"a", "n", "a", "l", "y", "z", "e">>, <<"a", "n", "a", "l", "y", "s", "e">> >>,
  << <<"c", "e", "n", "t", "e", "r">>, <<"c", "e", "n", "t", "r", "e">> >>,
  << <<"t", "h", "e", "a", "t", "e", "r">>, <<"t", "h", "e", "a", "t", "r", "e">> >> >>

\* \b at the gap in front of position p of text (p from 1 to Len(text) + 1)
WordBoundary(text, p) ==
  LET word_before == p > 1 /\ text[p - 1] \in WordCharacters
      word_after == p <= Len(text) /\ text[p] \in WordCharacters
  IN word_before # word_after

\* the pattern \b<us_spelling>\b with re.IGNORECASE matches at position p
SpellingAt(text, p, us_spelling) == p + Len(us_spelling) - 1 <= Len(text) /\ Lower(SubSeq(text, p, p + Len(us_spelling) - 1)) = us_spelling

SpellingAnywhere(text, p, us_spelling) == SpellingAt(text, p, us_spelling)

WholeWordAt(text, p, us_spelling) == SpellingAt(text, p, us_spelling) /\ WordBoundary(text, p) /\ WordBoundary(text, p + Len(us_spelling))

\* re.sub(r'\b' + us_spelling + r'\b', au_spelling, text, flags=re.IGNORECASE),
\* scanning from position p
RECURSIVE SubstituteWord(_, _, _, _)
SubstituteWord(text, p, us_spelling, au_spelling) ==
  IF p > Len(text) THEN <<>>
  ELSE IF WholeWordAt(text, p, us_spelling)
       THEN au_spelling \o SubstituteWord(text, p + Len(us_spelling), us_spelling, au_spelling)
       ELSE <<text[p]>> \o SubstituteWord(text, p + 1, us_spelling, au_spelling)

RECURSIVE ApplySpellings(_, _)
ApplySpellings(text, spellings) ==
  IF spellings = <<>> THEN text
  ELSE ApplySpellings(SubstituteWord(text, 1, spellings[1][1], spellings[1][2]), Tail(spellings))

\* if text and not text[-1] in '.!?': text += '.'
EndWithPunctuation(text) ==
  IF text # <<>> /\ text[Len(text)] \notin SentenceEnd THEN text \o <<".">> ELSE text

clean_text(text) ==
  LET quotes == ReplaceCharacters(text, QuoteCharacters, "\"")
      dashes == ReplaceCharacters(quotes, DashCharacters, "-")
      ellipsis == FixEllipsis(dashes)
      spacing == SpaceAfterSentenceEnd(RemoveSpaceBeforePunctuation(ellipsis))
      single == CollapseWhitespace(spacing)
      safe == RemoveSpecialCharacters(single)
      formatted == FixCloseParenthesis(FixOpenParenthesis(safe))
  IN EndWithPunctuation(Strip(ApplySpellings(formatted, au_spellings)))

NoCleaned == [returned |-> FALSE]

CleanIdle ==
  /\ dirty_text = <<>>
  /\ cleaned = NoCleaned

clean ==
  /\ cleaned = NoCleaned
  /\ cleaned' = [returned |-> TRUE, text |-> clean_text(dirty_text)]
  /\ UNCHANGED dirty_text

\* ---------------------------------------- AudioProcessor.stitch_audio_chunks
\* A buffer of bytes: whether it is a WAV file that AudioSegment.from_wav can
\* read, the chunks whose audio it holds in order, each with the fades applied
\* to it, and whether the whole was normalized.
Segment(k, fade_in, fade_out) == [chunk |-> k, fade_in |-> fade_in, fade_out |-> fade_out]

Buffer(k, wav) == [wav |-> wav, segments |-> <<Segment(k, FALSE, FALSE)>>, normalized |-> FALSE]

\* segment.fade_in for all but the first buffer, segment.fade_out for all but the last
Faded(chunks, b) ==
  [s \in DOMAIN chunks[b].segments |->
     Segment(chunks[b].segments[s].chunk,
             chunks[b].segments[s].fade_in \/ b > 1,
             chunks[b].segments[s].fade_out \/ b < Len(chunks))]

\* combined_audio += segment, for the segments from position b on
RECURSIVE Combined(_, _)
Combined(chunks, b) ==
  IF b > Len(chunks) THEN <<>> ELSE Faded(chunks, b) \o Combined(chunks, b + 1)

IsSingleNever(chunks) == FALSE

\* if len(audio_chunks) == 1: return audio_chunks[0]
IsSingle(chunks) == Len(chunks) = 1

stitch_audio_chunks(chunks, normalize) ==
  IF chunks = <<>> THEN [raised |-> "ValueError: No audio chunks provided"]
  ELSE IF IsSingle(chunks) THEN [raised |-> "no", audio |-> chunks[1]]
  ELSE IF \E b \in DOMAIN chunks : ~chunks[b].wav THEN [raised |-> "decode error"]
  ELSE [raised |-> "no",
        audio |-> [wav |-> TRUE, segments |-> Combined(chunks, 1),
                   normalized |-> normalize \/ \E b \in DOMAIN chunks : chunks[b].normalized]]

NoStitch == [raised |-> "not called"]

StitchIdle ==
  /\ normalize_audio = TRUE
  /\ audio_buffers = <<>>
  /\ stitched = NoStitch

stitch ==
  /\ stitched = NoStitch
  /\ stitched' = stitch_audio_chunks(audio_buffers, normalize_audio)
  /\ UNCHANGED <<normalize_audio, audio_buffers>>

\* ------------------------------------------ Book2AudioProcessor.process_book
\* exceptions _process_single_chapter raises: the one of the chapter run when
\* no chunk was accepted, or one of a file operation
ChapterErrors == {"All chunks failed to generate audio", "OSError"}

\* what _process_single_chapter returns for chapter k
ChapterResult(k) == [chapter |-> k, status |-> "success", word_count |-> k * ChunkWords, audio_file |-> k]

\* the entry appended when _process_single_chapter raised
FailedChapter(k, error) == [chapter |-> k, status |-> "failed", error |-> error]

\* sum(r.get('word_count', 0) for r in successful_chapters)
RECURSIVE TotalWords(_)
TotalWords(chapter_results) ==
  IF chapter_results = <<>> THEN 0
  ELSE (IF chapter_results[1].status = "success" THEN chapter_results[1].word_count ELSE 0)
       + TotalWords(Tail(chapter_results))

\* ProcessorHelpers.generate_summary (input_file, the date and the times left out)
generate_summary(chapter_results, output_files) ==
  LET HasStatus(status) == {r \in DOMAIN chapter_results : chapter_results[r].status = status}
  IN
  [total_chapters |-> Len(chapter_results),
   successful_chapters |-> Cardinality(HasStatus("success")),
   failed_chapters |-> Cardinality(HasStatus("failed")),
   total_words_processed |-> TotalWords(chapter_results),
   output_files |-> output_files,
   chapter_details |-> chapter_results]

NoSummary == [total_chapters |-> NULL]

BookIdle ==
  /\ book_pc = "idle"
  /\ detected = 0
  /\ chapter_index = 0
  /\ processing_results = <<>>
  /\ chapter_files = <<>>
  /\ summary = NoSummary

\* process_book up to the loop: the file is read and its chapters detected
process_book(count) ==
  /\ book_pc = "idle"
  /\ book_pc' = "chapters"
  /\ detected' = count
  /\ chapter_index' = 1
  /\ processing_results' = <<>>
  /\ chapter_files' = <<>>
  /\ summary' = NoSummary

\* the loop goes on with the next chapter after an exception
LastChapter(position, count) == count + 1

NextChapter(position, count) == position + 1

\* _process_single_chapter returned its result
chapter_processed ==
  /\ book_pc = "chapters"
  /\ chapter_index <= detected
  /\ processing_results' = Append(processing_results, ChapterResult(chapter_index))
  /\ chapter_files' = Append(chapter_files, ChapterResult(chapter_index).audio_file)
  /\ chapter_index' = chapter_index + 1
  /\ UNCHANGED <<book_pc, detected, summary>>

\* _process_single_chapter raised: except Exception appends the failed entry
chapter_raised(error) ==
  /\ book_pc = "chapters"
  /\ chapter_index <= detected
  /\ processing_results' = Append(processing_results, FailedChapter(chapter_index, error))
  /\ chapter_index' = NextChapter(chapter_index, detected)
  /\ UNCHANGED <<book_pc, detected, chapter_files, summary>>

\* after the loop: the summary is generated, written to the log file and returned
book_returns ==
  /\ book_pc = "chapters"
  /\ chapter_index > detected
  /\ summary' = generate_summary(processing_results, chapter_files)
  /\ book_pc' = "returned"
  /\ UNCHANGED <<detected, chapter_index, processing_results, chapter_files>>

\* ------------------------------------------- chapter run with chunk tracking
\* register_chunks called by the tracked run: one text per chunk_results
\* entry
RegisterChunks(rows, chapter_id, results) ==
  RegisterLoop(rows, chapter_id, Len(results), 0)

\* 'completed' if 'error' not in chunk_result else 'failed'
TrackedStatus(chunk_result) ==
  IF chunk_result.status = "error" THEN "failed" ELSE "completed"

\* the update_chunk_status loop over enumerate(result['chunk_results']):
\* entry i updates the i-th registered chunk
RECURSIVE UpdateTracked(_, _, _, _, _)
UpdateTracked(rows, chunk_ids, results, i, score) ==
  IF i > Len(results) THEN rows
  ELSE LET chunk_result == results[i]
           failed == chunk_result.status = "error"
           updated ==
             IF i <= Len(chunk_ids)
             THEN UpdateChunkStatus(rows, chunk_ids[i], TrackedStatus(chunk_result),
                    IF failed THEN NoFile ELSE ChunkWav(chunk_result.chunk_number),
                    IF failed THEN NULL
                    ELSE IF chunk_result.status = "existing" THEN 100 ELSE score,
                    IF failed THEN "error" ELSE "None")
             ELSE rows
       IN UpdateTracked(updated, chunk_ids, results, i + 1, score)

\* _process_single_chapter_with_tracking, after the chapter run returned with
\* status 'success': the chapter and its chunks are registered
track_register(chapter_id) ==
  /\ rpc = "done"
  /\ lock = NoConn
  /\ IF chunk_results = <<>>
     THEN /\ rpc' = "tracked"
          /\ UNCHANGED <<db, work>>
     ELSE /\ rpc' = "registered"
          /\ db' = [db EXCEPT !.chunks = RegisterChunks(@, chapter_id, chunk_results)]
          /\ work' = db'
  /\ UNCHANGED <<lock, proc, returned>>
  /\ UNCHANGED <<files, num_chunks, chunk_num, completed_chunk_nums, audio_chunks,
                 chunk_results, successful_chunks, failed_chunk_nums, calls,
                 scanned, handed, restitched>>
  /\ UNCHANGED covvars
  /\ UNCHANGED batch_results
  /\ UNCHANGED restitch_result
  /\ UNCHANGED servicevars

\* then every registered chunk gets the status its result entry tells
track_update(score) ==
  /\ rpc = "registered"
  /\ lock = NoConn
  /\ rpc' = "tracked"
  /\ LET registered == Len(db.chunks) - Len(chunk_results)
         chunk_ids == [i \in 1..Len(chunk_results) |-> registered + i]
     IN db' = [db EXCEPT !.chunks =
                 UpdateTracked(@, chunk_ids, chunk_results, 1, score)]
  /\ work' = db'
  /\ UNCHANGED <<lock, proc, returned>>
  /\ UNCHANGED <<files, num_chunks, chunk_num, completed_chunk_nums, audio_chunks,
                 chunk_results, successful_chunks, failed_chunk_nums, calls,
                 scanned, handed, restitched>>
  /\ UNCHANGED covvars
  /\ UNCHANGED batch_results
  /\ UNCHANGED restitch_result
  /\ UNCHANGED servicevars

\* ------------------------------------------------------------ BufferManager
\* a[start:stop] of Python and numpy: a negative index counts from the end,
\* -0 is 0, and both ends are clamped to the sequence
SliceIndex(samples, index) ==
  IF index < 0
  THEN (IF Len(samples) + index < 0 THEN 0 ELSE Len(samples) + index)
  ELSE (IF index > Len(samples) THEN Len(samples) ELSE index)

Slice(samples, start, stop) ==
  SubSeq(samples, SliceIndex(samples, start) + 1, SliceIndex(samples, stop))

\* if len(audio_array) > start + end: audio_array[start:-end], else the
\* audio as it is
Trim(samples, start_samples, end_samples) ==
  IF Len(samples) > start_samples + end_samples
  THEN Slice(samples, start_samples, 0 - end_samples)
  ELSE samples

NoTrim == [returned |-> FALSE]

BuffersIdle ==
  /\ buffer_pc = "new"
  /\ start_buffer_samples = 0
  /\ end_buffer_samples = 0
  /\ buffered_audio = <<>>
  /\ trimmed_audio = NoTrim

\* _initialize_buffers: the two buffer sentences are synthesized and their
\* samples counted; on any exception both lengths are 0
initialize_buffers(measured, start_samples, end_samples) ==
  /\ buffer_pc = "new"
  /\ buffer_pc' = "ready"
  /\ start_buffer_samples' = IF measured THEN start_samples ELSE 0
  /\ end_buffer_samples' = IF measured THEN end_samples ELSE 0
  /\ UNCHANGED <<buffered_audio, trimmed_audio>>

\* generate_with_buffers(text): the synthesized audio has the samples
\* 1..count; the buffers are trimmed off
generate_with_buffers(count) ==
  /\ buffer_pc = "ready"
  /\ buffered_audio' = [j \in 1..count |-> j]
  /\ trimmed_audio' = [returned |-> TRUE,
                       samples |-> Trim(buffered_audio', start_buffer_samples,
                                        end_buffer_samples)]
  /\ UNCHANGED <<buffer_pc, start_buffer_samples, end_buffer_samples>>

\* ---------------------------------------------------------- specification
InitProgram ==
  /\ db = EmptyTables
  /\ work = EmptyTables
  /\ lock = NoConn
  /\ proc = [p \in Procs |-> Idle]
  /\ returned = [c \in ChunkIds |-> <<>>]
  /\ files = {}
  /\ rpc = "idle"
  /\ num_chunks = 0
  /\ chunk_num = 0
  /\ completed_chunk_nums = {}
  /\ audio_chunks = <<>>
  /\ chunk_results = <<>>
  /\ successful_chunks = <<>>
  /\ failed_chunk_nums = <<>>
  /\ calls = <<>>
  /\ scanned = {}
  /\ handed = <<>>
  /\ restitched = <<>>
  /\ all_chunk_text = <<>>
  /\ coverage_percentage = NoCoverage
  /\ coverage_warning = FALSE
  /\ batch_results = NoBatch
  /\ restitch_result = "none"
  /\ retry_attempts = DefaultRetryAttempts
  /\ gpc = "idle"
  /\ attempt = 0
  /\ remote_calls = <<>>
  /\ sleeps = <<>>
  /\ audio_result = "none"
  /\ verifier = DefaultVerifier
  /\ verification = NoVerification

Init ==
  /\ InitProgram
  /\ CompareIdle
  /\ ChunkingIdle
  /\ CleanIdle
  /\ StitchIdle
  /\ BookIdle
  /\ BuffersIdle

Next ==
  \E p \in Procs :
    \/ (\E c \in ChunkIds : cav_call(p, c)) /\ UNCHANGED runvars
    \/ cav_select_max(p) /\ UNCHANGED runvars
    \/ cav_insert(p) /\ UNCHANGED runvars
    \/ cav_deactivate(p) /\ UNCHANGED runvars
    \/ cav_commit(p) /\ UNCHANGED runvars
    \/ Return(p) /\ UNCHANGED runvars

Spec == Init /\ [][Next]_vars

NextChunks ==
  \E p \in Procs :
    \/ (\E ch \in Chapters, num \in ChunkNumbers : cc_call(p, ch, num))
         /\ UNCHANGED runvars
    \/ cc_insert(p) /\ UNCHANGED runvars
    \/ cc_commit(p) /\ UNCHANGED runvars
    \/ (\E ch \in Chapters, pos \in Positions : icp_call(p, ch, pos))
         /\ UNCHANGED runvars
    \/ icp_shift(p) /\ UNCHANGED runvars
    \/ icp_create_chunk(p) /\ UNCHANGED runvars
    \/ icp_rollback(p) /\ UNCHANGED runvars
    \/ Return(p) /\ UNCHANGED runvars

SpecChunks == Init /\ [][NextChunks]_vars

\* the store as the chapter run of this model finds it; the run neither reads
\* nor writes the store, so it is followed from the fresh store only
FreshStore ==
  /\ db = EmptyTables
  /\ lock = NoConn
  /\ \A p \in Procs : proc[p] = Idle
  /\ restitch_result = "none"

\* chunk numbers register_chunks gives to the chunks of the chapter followed
RegisteredNumbers == {1, 2}

\* exclude_chunk_ids lists an operator passes to restitch_chapter_audio
ExcludeChoices == {{}, {1}, {2}}

\* the caller that issues the chunk manager operations, one after the other
Operator == 1

NextRun ==
  \/ FreshStore /\ (\E m \in 1..MaxRunChunks : start_run(m)) /\ UNCHANGED storevars
  \/ scan_existing /\ UNCHANGED storevars
  \/ main_skip_existing /\ UNCHANGED storevars
  \/ main_generate_fails /\ UNCHANGED storevars
  \/ main_fails_after_save /\ UNCHANGED storevars
  \/ main_chunk_completed /\ UNCHANGED storevars
  \/ reconcile_include /\ UNCHANGED storevars
  \/ reconcile_regenerate_fails /\ UNCHANGED storevars
  \/ (\E st \in {"PASSED", "WARNING", "FAILED"} : reconcile_regenerated(st))
       /\ UNCHANGED storevars
  \/ reconcile_no_retry /\ UNCHANGED storevars
  \/ raise_all_failed /\ UNCHANGED storevars
  \/ stitch_chapter /\ UNCHANGED storevars
  \/ restart_run /\ UNCHANGED storevars
  \/ rpc = "idle" /\ \E c \in Chapters, E \in ExcludeChoices :
                       restitch_chapter_audio(c, E)
  \/ rpc = "idle" /\ \E c \in Chapters : create_chapter_audio_version(c)
  \/ rpc = "idle" /\ \E id \in RegisteredNumbers,
                          o \in Outcomes :
                       reprocess_single_chunk(id, o, 90)
  \/ rpc = "idle" /\ (\E c \in Chapters, num \in RegisteredNumbers :
                        cc_call(Operator, c, num)) /\ UNCHANGED runvars
  \/ rpc = "idle" /\ cc_insert(Operator) /\ UNCHANGED runvars
  \/ rpc = "idle" /\ cc_commit(Operator) /\ UNCHANGED runvars
  \/ rpc = "idle" /\ Return(Operator) /\ UNCHANGED runvars

SpecRun == Init /\ [][NextRun]_vars

\* ------------------------------------------------ chunk manager, by itself
\* chunks are registered, marked and reprocessed one by one or in a batch
\* statuses passed to update_chunk_status without result fields
StatusOnlyCalls == {"processing", "completed"}

NextBatch ==
  \/ (\E c \in Chapters, num \in RegisteredNumbers : cc_call(Operator, c, num))
       /\ UNCHANGED runvars
  \/ cc_insert(Operator) /\ UNCHANGED runvars
  \/ cc_commit(Operator) /\ UNCHANGED runvars
  \/ Return(Operator) /\ UNCHANGED runvars
  \/ \E id \in RegisteredNumbers, a \in Attempts :
       reprocess_single_chunk(id, a.outcome, a.score)
  \/ \E id \in RegisteredNumbers : mark_chunk_for_reprocessing(id)
  \/ \E id \in RegisteredNumbers, status \in StatusOnlyCalls :
       update_chunk_status(id, status)
  \/ \E c \in Chapters :
       \E a \in [Range(BatchSelection(db.chunks, c)) -> Attempts] :
         batch_reprocess_failed_chunks(c, [k \in DOMAIN a |-> a[k].outcome],
                                          [k \in DOMAIN a |-> a[k].score])

SpecBatch == Init /\ [][NextBatch]_vars

\* ------------------------------------------------ restitching, by itself
\* chunks are registered and reprocessed, and the chapter audio is restitched
\* or registered by the audio endpoint
NextRestitch ==
  \/ (\E c \in Chapters, num \in RegisteredNumbers : cc_call(Operator, c, num))
       /\ UNCHANGED runvars
  \/ cc_insert(Operator) /\ UNCHANGED runvars
  \/ cc_commit(Operator) /\ UNCHANGED runvars
  \/ Return(Operator) /\ UNCHANGED runvars
  \/ \E id \in RegisteredNumbers, o \in Outcomes : reprocess_single_chunk(id, o, 90)
  \/ \E c \in Chapters, E \in ExcludeChoices : restitch_chapter_audio(c, E)
  \/ \E c \in Chapters : create_chapter_audio_version(c)

SpecRestitch == Init /\ [][NextRestitch]_vars

\* ------------------------- the synthesis client and the verifier, by themselves
\* texts handed to generate_audio: blank, or a chunk of text
Texts == {"", "text"}

NextServices ==
  \/ (\E n \in 1..MaxRetryAttempts : fal_init(n))
       /\ UNCHANGED <<storevars, chaptervars, verifiervars, unitvars>>
  \/ (\E text \in Texts : generate_audio(text))
       /\ UNCHANGED <<storevars, chaptervars, verifiervars, unitvars>>
  \/ attempt_returns_audio /\ UNCHANGED <<storevars, chaptervars, verifiervars, unitvars>>
  \/ (\E kind \in ErrorKinds : attempt_fails(kind))
       /\ UNCHANGED <<storevars, chaptervars, verifiervars, unitvars>>
  \/ generate_returns /\ UNCHANGED <<storevars, chaptervars, verifiervars, unitvars>>
  \/ (\E enabled, available, loads \in BOOLEAN : verifier_init(enabled, available, loads))
       /\ UNCHANGED <<storevars, chaptervars, gatewayvars, unitvars>>
  \/ (\E stt \in Transcriptions : verify_audio_content(stt))
       /\ UNCHANGED <<storevars, chaptervars, gatewayvars, unitvars>>

SpecServices == Init /\ [][NextServices]_vars

\* every remote call and download has a timeout and every sleep ends, so an
\* iteration of the retry loop that has started also finishes
RemoteAttempt ==
  /\ attempt_returns_audio \/ \E kind \in ErrorKinds : attempt_fails(kind)
  /\ UNCHANGED <<storevars, chaptervars, verifiervars, unitvars>>

SpecServicesFair == SpecServices /\ WF_vars(RemoteAttempt)

\* ------------------------------------------------ _compare_texts, by itself
\* words of the texts compared: a capital, a full stop and a spelling that
\* _normalize_text rewrites
Vocabulary == {<<"H", "e", "l", "l", "o">>, <<"w", "o", "r", "l", "d", ".">>, <<"c", "o", "l", "o", "u", "r">>}

RECURSIVE JoinWords(_)
JoinWords(words) ==
  IF words = <<>> THEN <<>>
  ELSE IF Len(words) = 1 THEN words[1]
  ELSE words[1] \o <<" ">> \o JoinWords(Tail(words))

\* the original text of a chunk, and what the transcription of its audio can
\* be: the empty string when the audio holds no speech
ComparedTexts == {JoinWords(words) : words \in UNION {[1..len -> Vocabulary] : len \in 0..MaxWords}}

InitCompare ==
  /\ InitProgram
  /\ original \in ComparedTexts
  /\ transcribed \in ComparedTexts
  /\ comparison_result = NoComparison
  /\ ChunkingIdle
  /\ CleanIdle
  /\ StitchIdle
  /\ BookIdle
  /\ BuffersIdle

NextCompare ==
  \/ compare_texts /\ UNCHANGED <<storevars, chaptervars, gatewayvars, verifiervars, chunkingvars, cleanvars, stitchvars, bookvars, buffervars>>

SpecCompare == InitCompare /\ [][NextCompare]_vars

\* ----------------------------------------------- chunk_long_text, by itself
\* sentences of the texts segmented: 3, 5 and 8 characters, one with a space
Sentences == {<<"G", "o", ".">>, <<"S", "t", "o", "p", "!">>, <<"R", "u", "n", " ", "n", "o", "w", ".">>}

\* whitespace between the sentences of a text
Separators == {<<" ">>, <<" ", " ">>}

RECURSIVE JoinWith(_, _)
JoinWith(parts, separator) ==
  IF parts = <<>> THEN <<>>
  ELSE IF Len(parts) = 1 THEN parts[1]
  ELSE parts[1] \o separator \o JoinWith(Tail(parts), separator)

LongTexts == {JoinWith(parts, separator) : parts \in UNION {[1..len -> Sentences] : len \in 0..MaxSentences}, separator \in Separators}

InitChunking ==
  /\ InitProgram
  /\ CompareIdle
  /\ CleanIdle
  /\ StitchIdle
  /\ BookIdle
  /\ BuffersIdle
  /\ long_text \in LongTexts
  /\ length_limit \in 1..MaxLength
  /\ final_chunks = NoChunks

NextChunking ==
  \/ chunk_text /\ UNCHANGED <<storevars, chaptervars, gatewayvars, verifiervars, comparevars, cleanvars, stitchvars, bookvars, buffervars>>

SpecChunking == InitChunking /\ [][NextChunking]_vars

\* ---------------------------------------------------- clean_text, by itself
\* characters of the raw strings cleaned: a letter, a capital, a space, a full
\* stop, a quote, a parenthesis and a character outside the allow-list
RawCharacters == {"a", "B", " ", ".", "'", "(", "@"}
RawStrings == UNION {[1..len -> RawCharacters] : len \in 0..MaxChars}

\* words of the phrases cleaned
PhraseWords == {<<"o", "r", "g", "a", "n", "i", "z", "e">>, <<"t", "h", "e">>, <<"c", "o", "l", "o", "u", "r">>, <<"s", "c", "h", "e", "m", "e">>, <<"C", "o", "l", "o", "r">>, <<"c", "o", "l", "o", "r", "s">>}
Phrases == {JoinWords(words) : words \in UNION {[1..len -> PhraseWords] : len \in 1..MaxPhraseWords}}

InitClean ==
  /\ InitProgram
  /\ CompareIdle
  /\ ChunkingIdle
  /\ StitchIdle
  /\ BookIdle
  /\ BuffersIdle
  /\ dirty_text \in RawStrings \cup Phrases
  /\ cleaned = NoCleaned

NextClean ==
  \/ clean /\ UNCHANGED <<storevars, chaptervars, gatewayvars, verifiervars, comparevars, chunkingvars, stitchvars, bookvars, buffervars>>

SpecClean == InitClean /\ [][NextClean]_vars

\* ------------------------------------------- stitch_audio_chunks, by itself
\* buffers handed over: the audio of chunk 1 or 2, as a WAV file or as bytes
\* that are no WAV file
StitchedBuffers == {Buffer(k, wav) : k \in 1..2, wav \in BOOLEAN}

InitStitch ==
  /\ InitProgram
  /\ CompareIdle
  /\ ChunkingIdle
  /\ CleanIdle
  /\ BookIdle
  /\ BuffersIdle
  /\ normalize_audio \in BOOLEAN
  /\ audio_buffers \in UNION {[1..len -> StitchedBuffers] : len \in 0..MaxBuffers}
  /\ stitched = NoStitch

NextStitch ==
  \/ stitch /\ UNCHANGED <<storevars, chaptervars, gatewayvars, verifiervars, comparevars, chunkingvars, cleanvars, bookvars, buffervars>>

SpecStitch == InitStitch /\ [][NextStitch]_vars

\* -------------------------------------------------- process_book, by itself
NextBook ==
  \/ (\E count \in 0..MaxBookChapters : process_book(count))
       /\ UNCHANGED <<storevars, chaptervars, gatewayvars, verifiervars, comparevars, chunkingvars, cleanvars, stitchvars, buffervars>>
  \/ chapter_processed
       /\ UNCHANGED <<storevars, chaptervars, gatewayvars, verifiervars, comparevars, chunkingvars, cleanvars, stitchvars, buffervars>>
  \/ (\E error \in ChapterErrors : chapter_raised(error))
       /\ UNCHANGED <<storevars, chaptervars, gatewayvars, verifiervars, comparevars, chunkingvars, cleanvars, stitchvars, buffervars>>
  \/ book_returns
       /\ UNCHANGED <<storevars, chaptervars, gatewayvars, verifiervars, comparevars, chunkingvars, cleanvars, stitchvars, buffervars>>

SpecBook == Init /\ [][NextBook]_vars

\* a chapter run ends (its loops are bounded and its remote calls have
\* timeouts), and so do the summary and the writing of the log file
BookStep ==
  /\ chapter_processed \/ (\E error \in ChapterErrors : chapter_raised(error)) \/ book_returns
  /\ UNCHANGED <<storevars, chaptervars, gatewayvars, verifiervars, comparevars, chunkingvars, cleanvars, stitchvars, buffervars>>

SpecBookFair == SpecBook /\ WF_vars(BookStep)

\* --------------------------------------- a chapter run with chunk tracking
\* one chapter is run on an empty store with tracking enabled; the chunk
\* manager operations follow once the run has returned, up to the first
\* chapter audio version a restitch creates
NextTracking ==
  \/ FreshStore /\ (\E n \in 1..MaxTrackedChunks : start_run(n)) /\ UNCHANGED storevars
  \/ scan_existing /\ UNCHANGED storevars
  \/ main_skip_existing /\ UNCHANGED storevars
  \/ main_generate_fails /\ UNCHANGED storevars
  \/ main_fails_after_save /\ UNCHANGED storevars
  \/ main_chunk_completed /\ UNCHANGED storevars
  \/ reconcile_include /\ UNCHANGED storevars
  \/ reconcile_regenerate_fails /\ UNCHANGED storevars
  \/ (\E st \in {"PASSED", "WARNING", "FAILED"} : reconcile_regenerated(st))
       /\ UNCHANGED storevars
  \/ raise_all_failed /\ UNCHANGED storevars
  \/ stitch_chapter /\ UNCHANGED storevars
  \/ restart_run /\ UNCHANGED storevars
  \/ \E c \in Chapters : track_register(c)
  \/ track_update(90)
  \/ \E id \in RegisteredNumbers, o \in Outcomes :
       rpc = "tracked" /\ reprocess_single_chunk(id, o, 90)
  \/ \E id \in RegisteredNumbers : rpc = "tracked" /\ mark_chunk_for_reprocessing(id)
  \/ \E c \in Chapters, E \in ExcludeChoices :
       /\ rpc = "tracked" /\ db.chapter_audio_versions = <<>>
       /\ restitch_chapter_audio(c, E)

SpecTracking == Init /\ [][NextTracking]_vars

\* ------------------------------------------- chunk numbering of a chapter
\* the chunks of a chapter are registered, and chunks are inserted at any
\* position the API accepts, by concurrent callers
NextNumbering ==
  \/ (\E c \in Chapters, count \in 1..MaxChunkNumber : register_chunks(c, count))
  \/ \E p \in Procs :
       \/ (\E ch \in Chapters, pos \in Positions : icp_call(p, ch, pos))
            /\ UNCHANGED runvars
       \/ icp_shift(p) /\ UNCHANGED runvars
       \/ icp_create_chunk(p) /\ UNCHANGED runvars
       \/ icp_rollback(p) /\ UNCHANGED runvars
       \/ Return(p) /\ UNCHANGED runvars

SpecNumbering == Init /\ [][NextNumbering]_vars

\* ------------------------------------- reprocess requests of the web API
\* the chunks of a chapter are registered; each request adds
\* reprocess_single_chunk as a background task, run in a thread of its own
NextWeb ==
  \/ (\E c \in Chapters, count \in 1..MaxChunkNumber : register_chunks(c, count))
  \/ \E p \in Procs :
       \/ \E id \in RegisteredNumbers : reprocess_task_start(p, id)
       \/ \E a \in Attempts : reprocess_task_end(p, a.outcome, a.score)
       \/ Return(p) /\ UNCHANGED runvars

SpecWeb == Init /\ [][NextWeb]_vars

\* ------------------- generate_audio under the alarm of the chapter run
\* the chapter run sets signal.alarm(chunk_timeout) and calls generate_audio
NextTimeout ==
  \/ (\E n \in 1..MaxRetryAttempts : fal_init(n))
       /\ UNCHANGED <<storevars, chaptervars, verifiervars, unitvars>>
  \/ (\E text \in Texts : generate_audio(text))
       /\ UNCHANGED <<storevars, chaptervars, verifiervars, unitvars>>
  \/ attempt_returns_audio /\ UNCHANGED <<storevars, chaptervars, verifiervars, unitvars>>
  \/ (\E kind \in ErrorKinds : attempt_fails(kind))
       /\ UNCHANGED <<storevars, chaptervars, verifiervars, unitvars>>
  \/ alarm_fires /\ UNCHANGED <<storevars, chaptervars, verifiervars, unitvars>>
  \/ (\E kind \in ErrorKinds : alarm_fires_in_backoff(kind))
       /\ UNCHANGED <<storevars, chaptervars, verifiervars, unitvars>>
  \/ generate_returns /\ UNCHANGED <<storevars, chaptervars, verifiervars, unitvars>>

SpecTimeout == Init /\ [][NextTimeout]_vars

\* ------------------------------------------------- BufferManager, by itself
NextBuffers ==
  \/ (\E measured \in BOOLEAN, s, e \in 0..MaxBufferSamples :
        initialize_buffers(measured, s, e))
       /\ UNCHANGED <<storevars, chaptervars, gatewayvars, verifiervars, comparevars, chunkingvars, cleanvars, stitchvars, bookvars>>
  \/ (\E count \in 0..MaxAudioSamples : generate_with_buffers(count))
       /\ UNCHANGED <<storevars, chaptervars, gatewayvars, verifiervars, comparevars, chunkingvars, cleanvars, stitchvars, bookvars>>

SpecBuffers == Init /\ [][NextBuffers]_vars

\* ------------------------------------------------------- checked properties
ActiveRows(rows, chunk_id) == {k \in VersionRows(rows, chunk_id) : rows[k].is_active}

VersionNumbers(rows, chunk_id) ==
  {rows[k].version_number : k \in VersionRows(rows, chunk_id)}

\* C1: after N >= 1 successful create_audio_version calls for a chunk, its
\* rows carry exactly the version numbers 1..N, exactly one row is active,
\* and the active row is the one the most recent successful call created.
C1_VersionMonotonicity ==
  \A c \in ChunkIds :
    LET N == Len(returned[c])
        rows == db.audio_versions
    IN N >= 1 =>
         /\ Cardinality(VersionRows(rows, c)) = N
         /\ VersionNumbers(rows, c) = 1..N
         /\ ActiveRows(rows, c) = {returned[c][N]}

\* some chunk has had three successful calls
C1_Witness == \E c \in ChunkIds : Len(returned[c]) >= 3

\* C3: every committed state a reader can see has exactly one active audio
\* version for each chunk that has any version, whatever the interleaving of
\* concurrent create_audio_version calls.
C3_NeverHalfApplied ==
  \A c \in ChunkIds :
    VersionRows(db.audio_versions, c) # {} =>
      Cardinality(ActiveRows(db.audio_versions, c)) = 1

\* two callers are inside create_audio_version for the same chunk, one of
\* them between its INSERT and its UPDATE (two active rows in its open
\* transaction) while the committed table already has a version of the chunk
C3_Witness ==
  \E p, q \in Procs :
    /\ p # q
    /\ proc[p].op = "create_audio_version" /\ proc[p].pc = "deactivate"
    /\ proc[q].op = "create_audio_version" /\ proc[q].id = proc[p].id
    /\ proc[q].pc \in {"select_max", "insert"}
    /\ VersionRows(db.audio_versions, proc[p].id) # {}
    /\ Cardinality(ActiveRows(work.audio_versions, proc[p].id)) = 2

\* C4: concurrent create_audio_version calls for one chunk all complete
\* successfully; none fails because another call read the same
\* MAX(version_number).
C4_BothCallsSucceed ==
  \A p \in Procs :
    (proc[p].op = "create_audio_version" /\ proc[p].pc = "done")
      => proc[p].result = "ok"

ChapterRows(rows, chapter_id) == {k \in DOMAIN rows : rows[k].chapter_id = chapter_id}

ChapterNumbers(rows, chapter_id) ==
  {rows[k].chunk_number : k \in ChapterRows(rows, chapter_id)}

NoDuplicateNumbers(rows) ==
  \A j, k \in DOMAIN rows :
    (j # k /\ rows[j].chapter_id = rows[k].chapter_id)
      => rows[j].chunk_number # rows[k].chunk_number

\* C5: no committed state has two chunks of one chapter with the same
\* chunk_number; a create_chunk call commits exactly one new row with status
\* pending, and a call for an existing (chapter_id, chunk_number) fails with
\* the chunk records left as they were.
C5_UniqueChunkNumbers ==
  [][ /\ NoDuplicateNumbers(db'.chunks)
      /\ \A p \in Procs :
           (proc[p].op = "create_chunk" /\ proc[p].pc = "insert"
              /\ proc'[p].pc # "insert"
              /\ proc[p].num \in ChapterNumbers(db.chunks, proc[p].id))
             => /\ proc'[p].pc = "done"
                /\ proc'[p].result = "IntegrityError"
                /\ db'.chunks = db.chunks
      /\ \A p \in Procs :
           (proc[p].op = "create_chunk" /\ proc[p].pc # "done"
              /\ proc'[p].pc = "done" /\ proc'[p].result = "ok")
             => /\ Len(db'.chunks) = Len(db.chunks) + 1
                /\ SubSeq(db'.chunks, 1, Len(db.chunks)) = db.chunks
                /\ LET row == db'.chunks[Len(db'.chunks)]
                   IN /\ row.chapter_id = proc[p].id
                      /\ row.chunk_number = proc[p].num
                      /\ row.status = "pending"
    ]_vars

\* a create_chunk call for an existing pair has failed, and the chapter has
\* two committed chunks
C5_Witness ==
  \E p \in Procs :
    /\ proc[p].op = "create_chunk" /\ proc[p].pc = "done"
    /\ proc[p].result = "IntegrityError"
    /\ proc[p].num \in ChapterNumbers(db.chunks, proc[p].id)
    /\ Cardinality(ChapterRows(db.chunks, proc[p].id)) >= 2

\* C6: on a chapter whose chunks are numbered 1..n, and for 1 <= p <= n+1,
\* insert_chunk_at_position succeeds, the chapter then has the numbers 1..n+1,
\* the chunk numbered p holds new_text, and every chunk that was numbered
\* q >= p is numbered q+1.
C6_InsertAtPosition ==
  [][ \A p \in Procs :
        (proc[p].op = "insert_chunk_at_position" /\ proc[p].pc # "done"
           /\ proc'[p].pc = "done")
          => LET before == proc'[p].snap
                 ch == proc[p].id
                 pos == proc[p].num
                 n == Cardinality(ChapterRows(before, ch))
                 after == db'.chunks
             IN (n >= 1 /\ ChapterNumbers(before, ch) = 1..n /\ pos \in 1..(n + 1))
                  => /\ proc'[p].result = "ok"
                     /\ Cardinality(ChapterRows(after, ch)) = n + 1
                     /\ ChapterNumbers(after, ch) = 1..(n + 1)
                     /\ \E k \in ChapterRows(after, ch) :
                          /\ after[k].chunk_number = pos
                          /\ after[k].original_text = proc[p].text
                     /\ \A k \in ChapterRows(before, ch) :
                          after[k].chunk_number =
                            IF before[k].chunk_number >= pos
                            THEN before[k].chunk_number + 1
                            ELSE before[k].chunk_number
    ]_vars

\* a reader sees chunk numbers that differ from those before the call while
\* no chunk has been added
ShiftVisibleWithoutNewChunk(rows, before) ==
  /\ Len(rows) = Len(before)
  /\ \E k \in DOMAIN rows : rows[k].chunk_number # before[k].chunk_number

\* C7: while insert_chunk_at_position is between its shift and its end, no
\* committed state shows the shift without the new chunk, and a call whose
\* insertion step fails leaves the committed chunks as they were before.
C7_ShiftInsertAtomic ==
  [][ \A p \in Procs :
        /\ (proc'[p].op = "insert_chunk_at_position"
              /\ proc'[p].pc \in {"create_chunk", "rollback"})
             => ~ ShiftVisibleWithoutNewChunk(db'.chunks, proc'[p].snap)
        /\ (proc[p].op = "insert_chunk_at_position" /\ proc[p].pc # "done"
              /\ proc'[p].pc = "done" /\ proc'[p].result # "ok")
             => db'.chunks = proc'[p].snap
    ]_vars

\* the insertion step of a call has failed while its open transaction holds
\* an applied shift that the committed table does not show
C7_Witness ==
  \E p \in Procs :
    /\ proc[p].op = "insert_chunk_at_position" /\ proc[p].pc = "rollback"
    /\ proc[p].result = "OperationalError"
    /\ ShiftVisibleWithoutNewChunk(work.chunks, proc[p].snap)
    /\ db.chunks = proc[p].snap

\* ----------------------------------------------------------------- C2
\* what a version row holds besides its active flag
VersionContent(row) == [row EXCEPT !.is_active = FALSE]

\* C2: after every create_chapter_audio_version / restitch_chapter_audio call
\* that registers a version, the versions list_chapter_audio_versions returns
\* for a chapter are numbered N..1, only the first (latest) is active, and
\* every version listed before the call is still listed with the same number
\* and content, inactive unless it is the latest.
C2_ChapterVersionsKept ==
  [][db'.chapter_audio_versions # db.chapter_audio_versions =>
       \A c \in Chapters :
         LET before == ListChapterAudioVersions(db.chapter_audio_versions, c)
             after == ListChapterAudioVersions(db'.chapter_audio_versions, c)
             N == Len(after)
         IN /\ \A j \in 1..N : /\ after[j].version_number = N + 1 - j
                               /\ after[j].is_active = (j = 1)
            /\ Len(before) <= N
            /\ \A j \in 1..Len(before) :
                 VersionContent(after[j + N - Len(before)]) = VersionContent(before[j])
    ]_vars

C2_Witness ==
  LET listed == ListChapterAudioVersions(db.chapter_audio_versions, 1)
  IN /\ Len(listed) = 2
     /\ listed[1].is_active /\ ~ listed[2].is_active
     /\ listed[1].excluded_chunks # <<>>
     /\ listed[2].stitched_from_chunks # listed[1].stitched_from_chunks
     /\ Len(restitched) >= 2

\* ----------------------------------------------------------------- C8
StrictlyAscending(buffers) ==
  \A a, b \in DOMAIN buffers : a < b => buffers[a].chunk < buffers[b].chunk

\* C8: the buffers passed to stitch_audio_chunks, by the chapter run and by
\* restitch_chapter_audio, are in strictly ascending chunk_number order.
C8_StitchOrderAscending ==
  StrictlyAscending(handed) /\ StrictlyAscending(restitched)

\* a restitch over chunks whose row order and reprocessing order both differ
\* from their chunk_number order
C8_Witness ==
  /\ Len(restitched) >= 2
  /\ \E a, b \in DOMAIN db.chunks :
       /\ a < b
       /\ db.chunks[a].chunk_number > db.chunks[b].chunk_number
       /\ db.chunks[a].status = "completed" /\ db.chunks[b].status = "completed"
       /\ \E x, y \in DOMAIN restitched :
            /\ restitched[x].chunk = db.chunks[a].chunk_number
            /\ restitched[y].chunk = db.chunks[b].chunk_number

\* ----------------------------------------------------------------- C9
TimesAccepted(k) ==
  Cardinality({j \in DOMAIN successful_chunks : successful_chunks[j].chunk = k})

TimesFailed(k) ==
  Cardinality({j \in DOMAIN failed_chunk_nums : failed_chunk_nums[j] = k})

\* C9: when the reconcile/regeneration loop has ended, every chunk number
\* 1..n is exactly once in the accepted list or exactly once in
\* failed_chunk_nums, never in both, never in neither; the lists hold nothing else.
C9_AcceptedOrFailed ==
  rpc \in {"check", "done", "raised"} =>
    /\ \A k \in 1..num_chunks : TimesAccepted(k) + TimesFailed(k) = 1
    /\ Len(successful_chunks) + Len(failed_chunk_nums) = num_chunks

\* a run that ends with a pre-existing, a synthesized and a regenerated chunk
\* accepted and with a chunk failed because its regenerated file did not verify
C9_Witness ==
  /\ rpc = "check"
  /\ num_chunks = 4
  /\ \E j \in DOMAIN successful_chunks : successful_chunks[j].src = "existing"
  /\ \E j \in DOMAIN successful_chunks : successful_chunks[j].src = "main"
  /\ \E j \in DOMAIN successful_chunks : successful_chunks[j].src = "regenerated"
  /\ \E j \in DOMAIN failed_chunk_nums :
       /\ RegeneratedWav(failed_chunk_nums[j]) \in files
       /\ RegeneratedWav(failed_chunk_nums[j]) \notin scanned

\* ---------------------------------------------------------------- C10
\* C10: in a run, a chunk number whose <base>_chunk_NNN.wav was in the chunk
\* directory at scan time gets no generate_audio call, its slot holds the
\* audio read from that file once the main loop has passed it, and in the
\* final ordered list that audio stands once, after every lower and before
\* every higher chunk number.
C10_Resumability ==
  rpc \in {"main", "reconcile", "check", "done", "raised"} =>
    \A k \in 1..num_chunks :
      ChunkWav(k) \in scanned =>
        /\ \A j \in DOMAIN calls : calls[j] # k
        /\ (rpc # "main" \/ chunk_num > k) =>
             audio_chunks[k] = Audio(k, "existing")
        /\ rpc \in {"check", "done", "raised"} =>
             \E j \in DOMAIN successful_chunks :
               /\ successful_chunks[j] = Audio(k, "existing")
               /\ \A h \in DOMAIN successful_chunks :
                    /\ h < j => successful_chunks[h].chunk < k
                    /\ h > j => successful_chunks[h].chunk > k

\* a restarted run that finds the file of a later chunk, synthesizes an
\* earlier one, and also meets a chunk of which only the regenerated file exists
C10_Witness ==
  /\ rpc = "done"
  /\ \E k \in 1..num_chunks :
       /\ ChunkWav(k) \in scanned
       /\ \E e \in 1..(k - 1) : /\ ChunkWav(e) \notin scanned
                                /\ \E j \in DOMAIN calls : calls[j] = e
  /\ \E r \in 1..num_chunks : /\ RegeneratedWav(r) \in scanned
                              /\ ChunkWav(r) \notin scanned

\* ---------------------------------------------------------------- C11
\* entries of chunk_results that record a synthesis attempt of chunk k
MainAttempts(k) ==
  {j \in DOMAIN chunk_results : /\ chunk_results[j].chunk_number = k
                                /\ chunk_results[j].status \in {"ok", "error"}}

\* C11: every chunk the main loop has passed and that was not pre-existing
\* was attempted exactly once, whatever failed before it, and an error is
\* recorded against the failing chunk only: a slot is empty exactly when
\* the entry of its own chunk is an error entry.
C11_FailureIsolation ==
  rpc \in {"main", "reconcile", "check", "done", "raised"} =>
    \A k \in 1..num_chunks :
      ((rpc # "main" \/ k < chunk_num) /\ k \notin completed_chunk_nums) =>
        /\ Cardinality(MainAttempts(k)) = 1
        /\ \A j \in MainAttempts(k) :
             (chunk_results[j].status = "error") <=> (audio_chunks[k] = NoAudio)

\* the main loop ended after two chunks failed, one before and one after its
\* file was saved, and a later chunk was still synthesized
C11_Witness ==
  /\ rpc = "reconcile" /\ chunk_num = 1
  /\ \E a, b, c \in 1..num_chunks :
       /\ a < c /\ b < c /\ a # b
       /\ audio_chunks[a] = NoAudio /\ ChunkWav(a) \notin files
       /\ audio_chunks[b] = NoAudio /\ ChunkWav(b) \in files
       /\ b \notin completed_chunk_nums
       /\ audio_chunks[c] = Audio(c, "main")

C14_ReprocessWritesVersion ==
  [][\A c \in DOMAIN db.chunks :
       (/\ c \in DOMAIN db'.chunks
        /\ db'.chunks[c] # db.chunks[c]
        /\ db'.chunks[c].status = "completed"
        /\ db'.chunks[c].audio_file_path = ReprocessedWav(db.chunks[c].chunk_number))
         => LET before == VersionRows(db.audio_versions, c)
                after == VersionRows(db'.audio_versions, c)
            IN /\ Cardinality(after) = Cardinality(before) + 1
               /\ before \subseteq after
               /\ \A r \in after \ before : db'.audio_versions[r].is_active
               /\ \A r \in before : ~db'.audio_versions[r].is_active]_vars

\* ---------------------------------------------------------------- C15
\* chunks of the chapter the batch has to reprocess: failed, needs_reprocess,
\* or completed with a stored score below the pass threshold
HasToBeReprocessed(rows, chapter_id) ==
  {k \in DOMAIN rows :
     /\ rows[k].chapter_id = chapter_id
     /\ \/ rows[k].status \in {"failed", "needs_reprocess"}
        \/ /\ rows[k].status = "completed"
           /\ rows[k].verification_score # NULL
           /\ rows[k].verification_score < LowQualityThreshold}

\* C15: a batch_reprocess_failed_chunks call reprocesses, exactly once each,
\* the failed and needs_reprocess chunks of the chapter and its completed
\* chunks whose score is below the pass threshold, 0.0 included, and no
\* other chunk.
C15_BatchSelection ==
  [][batch_results' # batch_results =>
       LET done == batch_results'.chunks
       IN /\ {done[j] : j \in DOMAIN done} = HasToBeReprocessed(db.chunks, 1)
          /\ \A a, b \in DOMAIN done : a # b => done[a] # done[b]]_vars

\* ---------------------------------------------------------------- C16
\* ids of the chunks whose audio a restitch concatenates: of the chapter,
\* not excluded, completed, with an audio file that exists
Concatenated(rows, chapter_id, exclude_chunk_ids, dir) ==
  {k \in DOMAIN rows :
     /\ rows[k].chapter_id = chapter_id
     /\ k \notin exclude_chunk_ids
     /\ rows[k].status = "completed"
     /\ rows[k].audio_file_path # NoFile
     /\ rows[k].audio_file_path \in dir}

\* C16: the Chapter Audio Version a successful restitch_chapter_audio(c, E)
\* persists has stitched_from_chunks equal to the ids of the chunks whose
\* audio was concatenated, and excluded_chunks equal to E.
C16_RestitchRecordsIncluded ==
  [][\A c \in Chapters, E \in ExcludeChoices :
       (/\ restitch_chapter_audio(c, E)
        /\ Len(db'.chapter_audio_versions) = Len(db.chapter_audio_versions) + 1)
         => LET new == db'.chapter_audio_versions[Len(db'.chapter_audio_versions)]
            IN /\ Range(new.stitched_from_chunks) = Concatenated(db.chunks, c, E, files)
               /\ Range(new.excluded_chunks) = E]_vars

\* ---------------------------------------------------------------- C17
\* C17: when no chunk of the chapter qualifies for inclusion, restitch ends
\* with a ValueError that says so, creates no Chapter Audio Version and
\* leaves the store, with the active version of the chapter, as it was.
C17_RestitchNothingToStitch ==
  [][\A c \in Chapters, E \in ExcludeChoices :
       (restitch_chapter_audio(c, E) /\ Concatenated(db.chunks, c, E, files) = {})
         => /\ restitch_result' \in
                 {"ValueError: Chapter or chunks not found",
                  "ValueError: No valid audio chunks found for stitching"}
            /\ db' = db /\ restitched' = restitched]_vars

\* a restitch that excluded the only completed chunk failed while the
\* version of an earlier restitch was, and still is, the active one
C17_Witness ==
  /\ restitch_result = "ValueError: No valid audio chunks found for stitching"
  /\ Len(db.chunks) >= 1
  /\ Len(db.chapter_audio_versions) = 1
  /\ db.chapter_audio_versions[1].is_active

\* ---------------------------------------------------------------- C18
\* what generate_audio raises, as opposed to the bytes it returns
Raised(result) == result \notin {"none", "audio"}

C18_Bounded ==
  /\ Len(remote_calls) <= retry_attempts
  /\ (gpc = "attempt") => (attempt < retry_attempts /\ Len(remote_calls) = attempt)
  /\ (gpc = "returned") => (audio_result = "audio" \/ Raised(audio_result))
  \* a wait follows a failed attempt that was not the last one, never the last one
  /\ Len(sleeps) < retry_attempts
  /\ \A j \in DOMAIN sleeps :
       /\ sleeps[j].attempt = j - 1 /\ sleeps[j].attempt < retry_attempts - 1
       /\ remote_calls[j] = sleeps[j].kind
  \* the backoff of a kind of error doubles from one attempt to the next
  /\ \A j, k \in DOMAIN sleeps :
       (sleeps[j].kind = sleeps[k].kind /\ sleeps[k].attempt = sleeps[j].attempt + 1)
         => sleeps[k].seconds = 2 * sleeps[j].seconds
  /\ \A j \in DOMAIN sleeps : sleeps[j].seconds >= 1
  \* a timeout or rate limit before the last attempt is followed by a wait
  /\ \A j \in DOMAIN remote_calls :
       (remote_calls[j] \in {"timeout", "rate limit"} /\ j < retry_attempts)
         => (j \in DOMAIN sleeps /\ (gpc = "attempt" \/ j < Len(remote_calls)))
  \* the failure of the last attempt raises
  /\ (Len(remote_calls) = retry_attempts /\ remote_calls[retry_attempts] # "audio")
       => (gpc # "attempt" /\ Raised(audio_result))

\* C18: one generate_audio invocation makes at most retry_attempts remote
\* calls and always ends, with the audio bytes or with an exception; a
\* timeout or rate limit on an attempt that is not the last is followed by
\* a wait that doubles from attempt to attempt and by another attempt, and
\* the failure of the last attempt raises without another wait or call.
C18_BoundedRetries == [](C18_Bounded) /\ ((gpc = "attempt") ~> (gpc = "returned"))

\* an invocation with retry_attempts = 3 timed out twice, waited 2 s then
\* 4 s, and its third remote call returned the audio
C18_Witness ==
  /\ retry_attempts = 3 /\ gpc = "returned" /\ audio_result = "audio"
  /\ remote_calls = <<"timeout", "timeout", "audio">>
  /\ Len(sleeps) = 2 /\ sleeps[1].seconds = 2 /\ sleeps[2].seconds = 4

\* ---------------------------------------------------------------- C19
\* C19: a permanent remote error, neither a timeout nor a rate limit, ends
\* the invocation: no remote call is made after it and the error is raised
\* to the caller.
C19_PermanentErrorNotRetried ==
  /\ \A j \in DOMAIN remote_calls :
       remote_calls[j] = "other" => j = Len(remote_calls)
  /\ (remote_calls # <<>> /\ remote_calls[Len(remote_calls)] = "other")
       => (gpc # "attempt" /\ Raised(audio_result))

C21_EmptyTranscript ==
  (comparison_result.returned /\ normalize_text(transcribed) = <<>>
     /\ Split(normalize_text(original)) # <<>>) =>
    /\ comparison_result.accuracy_score[1] = 0
    /\ comparison_result.missing_words = Split(normalize_text(original))
    /\ comparison_result.word_error_rate =
         <<Len(comparison_result.missing_words) + Len(comparison_result.extra_words),
           Len(Split(normalize_text(original)))>>
    /\ comparison_result.word_error_rate[1] = comparison_result.word_error_rate[2]

\* ---------------------------------------------------------------- C22
\* C22: chunk_long_text returns [text] when len(text) <= max_length;
\* otherwise every returned chunk of two or more sentences is at most
\* max_length long, and a returned chunk longer than max_length is exactly
\* one sentence of the text, itself longer than max_length.
C22_ChunkLengths ==
  final_chunks.returned =>
    IF Len(long_text) <= length_limit THEN final_chunks.chunks = <<long_text>>
    ELSE \A c \in DOMAIN final_chunks.chunks :
           LET chunk == final_chunks.chunks[c]
           IN /\ Len(sent_tokenize(chunk)) >= 2 => Len(chunk) <= length_limit
              /\ Len(chunk) > length_limit =>
                   /\ sent_tokenize(chunk) = <<chunk>>
                   /\ chunk \in Range(sent_tokenize(long_text))

\* a text longer than max_length was segmented into a chunk of two sentences
\* and an oversized chunk of one sentence
C22_Witness ==
  /\ final_chunks.returned
  /\ Len(long_text) > length_limit
  /\ \E c \in DOMAIN final_chunks.chunks : Len(sent_tokenize(final_chunks.chunks[c])) >= 2
  /\ \E c \in DOMAIN final_chunks.chunks : Len(final_chunks.chunks[c]) > length_limit

\* ---------------------------------------------------------------- C23
RECURSIVE SentencesOf(_)
SentencesOf(chunks) ==
  IF chunks = <<>> THEN <<>> ELSE sent_tokenize(chunks[1]) \o SentencesOf(Tail(chunks))

\* C23: for a text longer than max_length, the sentences of the returned
\* chunks, chunk by chunk in order, are the sentence sequence the tokenizer
\* gives for the text, and the chunks joined with single spaces are those
\* sentences joined with single spaces.
C23_SegmentationSafety ==
  (final_chunks.returned /\ Len(long_text) > length_limit) =>
    /\ SentencesOf(final_chunks.chunks) = sent_tokenize(long_text)
    /\ JoinWith(final_chunks.chunks, <<" ">>) = JoinWith(sent_tokenize(long_text), <<" ">>)

\* three sentences separated by two spaces went into more than one chunk
C23_Witness ==
  /\ final_chunks.returned
  /\ Len(long_text) > length_limit
  /\ Len(sent_tokenize(long_text)) = 3
  /\ Len(final_chunks.chunks) = 2
  /\ JoinWith(final_chunks.chunks, <<" ">>) # long_text

\* ---------------------------------------------------------------- C24
\* C24: cleaning is idempotent: cleaning the cleaned text again returns it
\* unchanged.
C24_CleanIdempotent ==
  cleaned.returned => clean_text(cleaned.text) = cleaned.text

\* ---------------------------------------------------------------- C25
\* the target-locale spelling of a word that is a US spelling of the rule
\* table in any case, the word itself otherwise
TargetSpelling(word) ==
  IF \E r \in DOMAIN au_spellings : Lower(word) = au_spellings[r][1]
  THEN au_spellings[CHOOSE r \in DOMAIN au_spellings : Lower(word) = au_spellings[r][1]][2]
  ELSE word

TargetSpellings(words) == [w \in DOMAIN words |-> TargetSpelling(words[w])]

\* the cleaned phrase has, word for word, the US spellings of the rule table
\* replaced and every other word (a target spelling, a word of which a US
\* spelling is only a part) as it was
SpellingNormalized ==
  (cleaned.returned /\ dirty_text \in Phrases) =>
    Split(cleaned.text) = Split(JoinWords(TargetSpellings(Split(dirty_text))) \o <<".">>)

TheColourScheme == JoinWords(<<<<"o", "r", "g", "a", "n", "i", "z", "e">>, <<"t", "h", "e">>, <<"c", "o", "l", "o", "u", "r">>, <<"s", "c", "h", "e", "m", "e">>>>)

\* C25 as stated: US spellings replaced, target spellings unchanged, and
\* 'organize the colour scheme' cleaned is 'organise the colour scheme'.
C25_AsStated ==
  /\ SpellingNormalized
  /\ (cleaned.returned /\ dirty_text = TheColourScheme) =>
       cleaned.text = JoinWords(<<<<"o", "r", "g", "a", "n", "i", "s", "e">>, <<"t", "h", "e">>, <<"c", "o", "l", "o", "u", "r">>, <<"s", "c", "h", "e", "m", "e">>>>)

\* C25: every whole-word US spelling of the rule table is replaced by its
\* target spelling, words already in the target spelling are unchanged, and
\* 'organize the colour scheme' cleaned is 'organise the colour scheme.',
\* with the sentence-ending full stop that clean_text appends.
C25_SpellingNormalization ==
  /\ SpellingNormalized
  /\ (cleaned.returned /\ dirty_text = TheColourScheme) =>
       cleaned.text = JoinWords(<<<<"o", "r", "g", "a", "n", "i", "s", "e">>, <<"t", "h", "e">>, <<"c", "o", "l", "o", "u", "r">>, <<"s", "c", "h", "e", "m", "e">>>>) \o <<".">>

\* 'organize the colour scheme' has been cleaned
C25_Witness ==
  /\ cleaned.returned
  /\ dirty_text = TheColourScheme
  /\ Split(cleaned.text)[1] = <<"o", "r", "g", "a", "n", "i", "s", "e">>
  /\ Split(cleaned.text)[3] = <<"c", "o", "l", "o", "u", "r">>

\* ---------------------------------------------------------------- C26
\* C26: stitch_audio_chunks given exactly one buffer returns that buffer
\* unchanged (not decoded, faded or normalized), and given an empty list it
\* raises ValueError and returns no audio.
C26_SingleAndEmpty ==
  (stitched # NoStitch) =>
    /\ Len(audio_buffers) = 1 => (stitched.raised = "no" /\ stitched.audio = audio_buffers[1])
    /\ audio_buffers = <<>> => stitched.raised = "ValueError: No audio chunks provided"

\* a single buffer that is no WAV file came back while normalization is on
C26_Witness ==
  /\ stitched # NoStitch
  /\ Len(audio_buffers) = 1
  /\ ~audio_buffers[1].wav
  /\ normalize_audio
  /\ stitched.raised = "no"

\* ---------------------------------------------------------------- C27
\* what holds of the summary and of the results collected so far
C27_Summary ==
  /\ \A k \in DOMAIN processing_results :
       /\ processing_results[k].chapter = k
       /\ processing_results[k].status \in {"success", "failed"}
  /\ book_pc = "returned" =>
       /\ summary.chapter_details = processing_results
       /\ Len(summary.chapter_details) = detected
       /\ summary.total_chapters = detected
       /\ summary.total_chapters = summary.successful_chapters + summary.failed_chapters
       /\ summary.failed_chapters = Cardinality({k \in 1..detected : "error" \in DOMAIN processing_results[k]})

LifecycleEdges ==
  {<<"pending", "processing">>, <<"processing", "completed">>,
   <<"processing", "failed">>, <<"completed", "needs_reprocess">>,
   <<"failed", "needs_reprocess">>, <<"needs_reprocess", "processing">>}

\* the statuses chunk chunk_id goes through in one step: reprocess_single_chunk
\* sets 'processing' before it sets the final status
StatusPath(chunk_id) ==
  IF \E o \in Outcomes : reprocess_single_chunk(chunk_id, o, 90)
  THEN <<db.chunks[chunk_id].status, "processing", db'.chunks[chunk_id].status>>
  ELSE IF db.chunks[chunk_id].status = db'.chunks[chunk_id].status
  THEN <<db.chunks[chunk_id].status>>
  ELSE <<db.chunks[chunk_id].status, db'.chunks[chunk_id].status>>

\* C28: every change of a chunk's status made by the tracked run,
\* reprocess_single_chunk or mark_chunk_for_reprocessing follows an edge of
\* the lifecycle pending -> processing -> completed | failed ->
\* needs_reprocess -> processing, and a new chunk starts as pending
C28_LifecycleEdges ==
  [][/\ \A id \in DOMAIN db.chunks \cap DOMAIN db'.chunks :
          LET path == StatusPath(id)
          IN \A j \in 1..(Len(path) - 1) : <<path[j], path[j + 1]>> \in LifecycleEdges
     /\ \A id \in DOMAIN db'.chunks \ DOMAIN db.chunks :
          db'.chunks[id].status = "pending"]_vars

\* C29: in a run with chunk tracking, once a synthesis call of the chapter
\* has been issued the store holds one chunk record per segmented chunk
C29_RecordsBeforeSynthesis ==
  calls # <<>> =>
    \A k \in 1..num_chunks :
      \E id \in DOMAIN db.chunks : db.chunks[id].chunk_number = k

\* C30: when the tracked run has stored the statuses, and when a restitch has
\* succeeded, every chunk whose audio is in the stitched file has status
\* completed in the store
C30_StoredStatusAuthoritative ==
  [][/\ track_update(90) =>
          \A j \in DOMAIN successful_chunks :
            \E i \in DOMAIN chunk_results :
              /\ chunk_results[i].chunk_number = successful_chunks[j].chunk
              /\ i \in DOMAIN db'.chunks
              /\ db'.chunks[i].status = "completed"
     /\ \A c \in Chapters, E \in ExcludeChoices :
          restitch_chapter_audio(c, E) /\ restitch_result' = "ok" =>
            \A a \in Range(CollectAudio(db.chunks, GetChunksByChapter(db.chunks, c),
                                        E, files, 1)) :
              \E id \in DOMAIN db.chunks :
                /\ db.chunks[id].chunk_number = a.chunk
                /\ db.chunks[id].status = "completed"]_vars

\* ---------------------------------------------------------------- C31
RegeneratedAccepted(k, accepted) ==
  \E j \in DOMAIN accepted : accepted[j] = Audio(k, "regenerated")

TimesIn(failed, k) == Cardinality({j \in DOMAIN failed : failed[j] = k})

\* C31: in the reconcile pass, the regenerated audio of an empty slot joins
\* the accepted list only if verify_audio_file answered PASSED; when the
\* regeneration raises or the verification does not pass, the slot stays
\* empty, nothing of the chunk is accepted and its number is in
\* failed_chunk_nums
C31_RegeneratedMustPass ==
  [][/\ \A st \in {"PASSED", "WARNING", "FAILED"} :
          reconcile_regenerated(st) =>
            /\ RegeneratedAccepted(chunk_num, successful_chunks') <=> st = "PASSED"
            /\ st # "PASSED" =>
                 /\ audio_chunks'[chunk_num] = NoAudio
                 /\ TimesIn(failed_chunk_nums', chunk_num) = 1
            /\ st = "PASSED" => TimesIn(failed_chunk_nums', chunk_num) = 0
     /\ reconcile_regenerate_fails =>
          /\ ~RegeneratedAccepted(chunk_num, successful_chunks')
          /\ audio_chunks'[chunk_num] = NoAudio
          /\ TimesIn(failed_chunk_nums', chunk_num) = 1]_vars

\* the reconcile pass has accepted the regenerated audio of one chunk and
\* turned down that of another, whose file is in the directory
C31_Witness ==
  /\ rpc = "check"
  /\ num_chunks = 2
  /\ Len(successful_chunks) = 1 /\ successful_chunks[1].src = "regenerated"
  /\ Len(failed_chunk_nums) = 1
  /\ RegeneratedWav(failed_chunk_nums[1]) \in files \ scanned
  /\ audio_chunks = [k \in 1..2 |-> NoAudio]

\* ---------------------------------------------------------------- C32
\* C32: reprocess_single_chunk(c) writes no audio but that of chunk c, leaves
\* the record of every other chunk and c's own chapter and chunk number as
\* they were, and creates no chapter audio version: the versions of the
\* chapter, the active one included, and the stitched audio are unchanged
C32_ReprocessOnlyThatChunk ==
  [][\A id \in RegisteredNumbers, o \in Outcomes :
       reprocess_single_chunk(id, o, 90) =>
         /\ DOMAIN db'.chunks = DOMAIN db.chunks
         /\ \A k \in DOMAIN db.chunks \ {id} : db'.chunks[k] = db.chunks[k]
         /\ db'.chunks[id].chunk_number = db.chunks[id].chunk_number
         /\ db'.chunks[id].chapter_id = db.chunks[id].chapter_id
         /\ db'.chunks[id].original_text = db.chunks[id].original_text
         /\ files \subseteq files'
         /\ files' \ files \subseteq {ReprocessedWav(db.chunks[id].chunk_number)}
         /\ db'.chapter_audio_versions = db.chapter_audio_versions
         /\ db'.audio_versions = db.audio_versions
         /\ restitched' = restitched]_vars

\* chunk 2 has been reprocessed, and has failed after its audio was saved,
\* while chunk 1 was completed and the chapter had an active stitched version
C32_Witness ==
  /\ Len(db.chunks) = 2
  /\ db.chunks[1].status = "completed" /\ db.chunks[2].status = "failed"
  /\ ReprocessedWav(db.chunks[2].chunk_number) \in files
  /\ \E v \in DOMAIN db.chapter_audio_versions : db.chapter_audio_versions[v].is_active

\* ---------------------------------------------------------------- C33
\* C33: update_chunk_status called with a status and no result field changes
\* the chunk's status only: the stored audio_file_path and
\* verification_score (and error_message) are what they were
C33_StatusOnlyKeepsResults ==
  [][\A id \in RegisteredNumbers, status \in StatusOnlyCalls :
       update_chunk_status(id, status) /\ id \in DOMAIN db.chunks =>
         /\ db'.chunks[id].status = status
         /\ db'.chunks[id].audio_file_path = db.chunks[id].audio_file_path
         /\ db'.chunks[id].verification_score = db.chunks[id].verification_score]_vars

\* ---------------------------------------------------------------- C34
\* C34: when reprocess_single_chunk of a completed chunk fails, the chunk
\* ends as failed with the exception message stored, and the audio file
\* reference and verification score stored before are still recorded
C34_FailedReprocessKeepsAudio ==
  [][\A id \in RegisteredNumbers, o \in Outcomes \ {"ok"} :
       (/\ reprocess_single_chunk(id, o, NULL)
        /\ db.chunks[id].status = "completed") =>
         /\ db'.chunks[id].status = "failed"
         /\ db'.chunks[id].error_message = "error"
         /\ db'.chunks[id].audio_file_path = db.chunks[id].audio_file_path
         /\ db'.chunks[id].verification_score = db.chunks[id].verification_score]_vars

C36_DelayBetweenCalls ==
  /\ calls # <<>> => calls[1] # Delay
  /\ \A j \in DOMAIN calls : (j > 1 /\ calls[j] # Delay) => calls[j - 1] = Delay

\* ---------------------------------------------------------------- C37
\* the tasks whose generate_audio call for a chunk of the chapter is in flight
InFlight(chapter_id) ==
  {p \in Procs : /\ proc[p].op = "reprocess_single_chunk"
                 /\ proc[p].pc = "generate_audio"
                 /\ db.chunks[proc[p].id].chapter_id = chapter_id}

\* C37: at most one synthesis call of a chapter is in flight at a time, also
\* when reprocess requests for chunks of the chapter arrive concurrently
C37_OneCallInFlight ==
  \A c \in Chapters : Cardinality(InFlight(c)) <= 1

\* ---------------------------------------------------------------- C38
\* C38: once the alarm of the chapter run has gone off during a synthesis
\* call for a chunk, no further remote attempt is made for that chunk:
\* the interrupted attempt is the last one and generate_audio ends with a
\* TimeoutError
C38_TimeoutIsCeiling ==
  \A j \in DOMAIN remote_calls :
    remote_calls[j] = "alarm" =>
      /\ j = Len(remote_calls)
      /\ gpc # "attempt"
      /\ audio_result \in {"TimeoutError: timed out after all attempts",
                           "TimeoutError: TTS generation timeout"}

\* ---------------------------------------------------------------- C39
\* C39: with buffer lengths s and e and L synthesized samples,
\* generate_with_buffers returns the samples s+1 .. L-e (L - s - e of them)
\* when L > s + e, and all L samples otherwise, s = e = 0 included
C39_SampleAccurateTrim ==
  trimmed_audio # NoTrim =>
    IF Len(buffered_audio) > start_buffer_samples + end_buffer_samples
    THEN /\ Len(trimmed_audio.samples) =
              Len(buffered_audio) - start_buffer_samples - end_buffer_samples
         /\ \A j \in DOMAIN trimmed_audio.samples :
              trimmed_audio.samples[j] = buffered_audio[start_buffer_samples + j]
    ELSE trimmed_audio.samples = buffered_audio

\* ---------------------------------------------------------------- C40
\* C40: in a restarted run, a chunk number that had synthesized audio in the
\* chunk directory at scan time, as <base>_chunk_NNN.wav or as
\* <base>_chunk_NNN_REGENERATED.wav, gets no generate_audio call
C40_NoSecondPayment ==
  rpc \in {"main", "reconcile", "check", "done", "raised"} =>
    \A k \in 1..num_chunks :
      (ChunkWav(k) \in scanned \/ RegeneratedWav(k) \in scanned) =>
        \A j \in DOMAIN calls : calls[j] # k

====
